---- MODULE Spec2Model ----
(***************************************************************************)
(* The daemon subsystem of fjordos/up: the lifecycle manager               *)
(* (up_core/daemon/service.py), the processes it forks and signals, the    *)
(* PID file, and the per-process issue caches of the two check engines.    *)
(***************************************************************************)
EXTENDS Integers, Sequences, FiniteSets, TLC

\* ------------------------------------------------------------------ bounds
\* Size of the process table that is modelled (pids 1..MaxPid).
MaxPid == 2
\* Longest issue sequence a check cycle returns in the lifecycle model.
MaxIssues == 1
\* Calls of service.py's operations (start, stop, status) in one run.
MaxCalls == 2
\* Events of the environment (signals, files removed, other processes) in one run.
MaxEnv == 1
\* for _ in range(10) in stop_daemon.
StopPolls == 10
\* Invocations of check_health / check_security in one run of the check engines.
MaxChecks == 2
\* Sub-checks in one run that append an issue or fail to obtain their metric.
MaxEvents == 2
\* Most issues a sub-check appends in one invocation.
MaxFound == 1
\* The largest percentage a metric is sampled at.
MaxPercent == 100
\* The most cores of a host, and its largest 1-minute load, in quarters.
MaxCores == 2
MaxLoad == 20
\* The largest counts of failed logins and of failed sudo attempts.
MaxLogins == 52
MaxSudo == 22
\* The longest sequences of listening ports, of processes, of sshd_config lines.
MaxPorts == 2
MaxProcesses == 2
MaxLines == 2
\* The most invocations of one check engine while the host stays as it is.
MaxCycles == 2
\* The most callers of repair_issue on one process table.
MaxRuns == 1

Pids == 1..MaxPid
Loops == {"health", "security", "repair"}
Issue == {"issue"}
IssueSeqs == UNION {[1..n -> Issue] : n \in 0..MaxIssues}
\* The processes that import service.py and call it: a management command
\* (a fresh interpreter per invocation) and the long-lived HTTP server.
Callers == {"cli", "http"}

VARIABLES
    pidfile,          \* DAEMON_PID_FILE: absent, text that is no integer, or a pid
    kind,             \* kind[p]: "free" (no such process), "other" (unrelated), "daemon"
    match,            \* match[p]: cmdline of p has an entry with 'python' and one with 'up'
    pc,               \* pc[p]: where daemon process p is in start_daemon / _cleanup
    via,              \* via[p]: how p entered _cleanup: "poll" (main loop) or "handler"
    done,             \* done[p]: the steps of the running _cleanup that have returned
    threads,          \* threads[p]: the loop threads alive in daemon process p
    health_issues,    \* health_monitor._health_issues of daemon process p
    security_issues,  \* security_monitor._security_issues of daemon process p
    http_health,      \* health_monitor._health_issues of the HTTP server process
    http_security,    \* security_monitor._security_issues of the HTTP server process
    child1,           \* first-fork children that have not forked again yet (their cmdline flag)
    stop,             \* the stop_daemon invocation in progress
    exitcode,         \* how the process that ended last ended ("-": none has)
    last,             \* the last result a caller of service.py obtained
    budget,           \* calls and environment events still to come in this run
    run,              \* run[t]: the check_health / check_security invocation of thread t
    cache,            \* cache[k]: _health_issues / _security_issues of the process
    finished,         \* finished[k]: the sequences that invocations of kind k have returned
    seen,             \* seen[k]: what get_health_issues / get_security_issues returned last
    work,             \* check invocations and sub-check events still to come in this run
    loop_thread,      \* loop_thread[l]: where the thread of loop l is ("none": never started)
    stop_event,       \* stop_event[l]: _stop_event of loop l's module is set
    joiner,           \* joiner[l]: a stop() of loop l is waiting in join(timeout=5)
    logged,           \* logged[l]: the last line start() or stop() of loop l has logged
    raised,           \* raised[l]: a cycle of loop l's present thread has raised
    repair,           \* the repair_all invocation in progress
    repaired,         \* the last call of repair_issue: its argument and its result
    host,             \* the state of the host that the sub-checks sample
    held,             \* held[k]: the list engine k caches in the process that checks the host
    history,          \* history[k]: what engine k held and returned, for each of its
                      \* invocations since the host last changed
    cycle,            \* the cycle of _repair_loop in progress
    table,            \* the processes running on the host, one row each
    signal            \* the last run of a handler on the table: what it ran and returned

procvars == <<kind, match, pc, via, done, threads, health_issues, security_issues, exitcode>>
httpvars == <<http_health, http_security>>
quiet == <<http_health, http_security, budget>>
\* The lifecycle manager's state, and the state of the check engines in one process.
lifecycle == <<pidfile, kind, match, pc, via, done, threads, health_issues, security_issues,
               http_health, http_security, child1, stop, exitcode, last, budget>>
checkvars == <<run, cache, finished, seen, work>>
loopvars == <<loop_thread, stop_event, joiner, logged, raised>>
repairvars == <<repair, repaired>>
hostvars == <<host, held, history, cycle>>
signalvars == <<table, signal>>
enginevars == <<checkvars, loopvars, repairvars, hostvars, signalvars>>
besides_checks == <<lifecycle, loopvars, repairvars, hostvars, signalvars>>
besides_loops == <<lifecycle, checkvars, repairvars, hostvars, signalvars>>
besides_repairs == <<lifecycle, checkvars, loopvars, hostvars, signalvars>>
besides_host == <<lifecycle, checkvars, loopvars, signalvars>>
besides_signals == <<lifecycle, checkvars, loopvars, repairvars, hostvars>>
vars == <<lifecycle, enginevars>>

\* Where SIGTERM finds _handle_sigterm installed.
HandlerPcs == {"handler", "health", "security", "main", "cleanup"}

NoStop == [pc |-> "idle", pid |-> 0, n |-> 0, pre |-> "absent", sent |-> <<>>]
NoResult == [op |-> "none", ret |-> FALSE, pre |-> "absent", by |-> "cli",
             health_issues |-> 0, security_issues |-> 0, sent |-> <<>>]

\* ----------------------------------------------------------- the PID file
\* The file's content as int(f.read().strip()) meets it.
Absent == [content |-> "absent", pid |-> 0]
Garbage == [content |-> "garbage", pid |-> 0]
PidOf(p) == [content |-> "int", pid |-> p]
PidFiles == {Absent, Garbage} \cup {PidOf(p) : p \in Pids}

\* ------------------------------------------------------- is_daemon_running
\* os.kill(pid, 0) succeeds.
alive(k, p) == k[p] # "free"

\* What the PID file names, as is_daemon_running meets it.
PidClass(pf, k, m) ==
    IF pf.content # "int" THEN pf.content
    ELSE IF ~alive(k, pf.pid) THEN "dead"
    ELSE IF k[pf.pid] = "daemon" THEN (IF m[pf.pid] THEN "daemon" ELSE "daemon_nomatch")
    ELSE (IF m[pf.pid] THEN "other_match" ELSE "other")

\* The value is_daemon_running returns.
is_daemon_running(pf, k, m) ==
    /\ pf.content # "absent"         \* os.path.exists
    /\ pf.content = "int"            \* int(...) does not raise ValueError
    /\ alive(k, pf.pid)              \* os.kill(pid, 0) does not raise OSError
    /\ m[pf.pid]                     \* any('python' in cmd) and any('up' in cmd)

\* A probe that never unlinks the PID file.
pidfile_after_probe_keeps(pf, k) == pf

\* The PID file is_daemon_running leaves behind: unlinked on ValueError/OSError only.
pidfile_after_probe(pf, k) ==
    IF pf.content = "absent" THEN Absent
    ELSE IF pf.content = "garbage" THEN Absent
    ELSE IF ~alive(k, pf.pid) THEN Absent
    ELSE pf

\* -------------------------------------------------------- the check engines
\* The two engines: health_monitor and security_monitor.
Kinds == {"health", "security"}

\* The threads of a process that call the engines: the three loop threads and
\* an on-demand caller (an HTTP view, a management command, repair_all).
Threads == Loops \cup {"caller"}

\* The engines thread t calls: a monitor loop its own, _repair_loop and the
\* on-demand callers both.
calls(t) ==
    IF t = "health" THEN {"health"}
    ELSE IF t = "security" THEN {"security"}
    ELSE Kinds

\* The sub-checks of check_health, in the order it calls them.
health_checks ==
    <<"disk_usage", "memory_usage", "cpu_load", "zombie_processes",
      "inode_usage", "swap_usage", "system_updates">>

\* The sub-checks of check_security, in the order it calls them.
security_checks ==
    <<"failed_logins", "sudo_usage", "open_ports", "suspicious_processes",
      "modified_system_files", "ssh_config", "firewall_status">>

sub_checks(k) == IF k = "health" THEN health_checks ELSE security_checks

\* How a sub-check's attempt to obtain its metric ends: it obtains it; the
\* first fetch raises; a later fetch raises, after issues were appended; the
\* command it runs fails without raising (not found, permission denied).
Outcomes == {"ok", "raises", "raises_late", "command_fails"}

\* The sub-checks that fetch again after they have appended an issue, all
\* inside one try block.
PartialChecks == {"disk_usage", "cpu_load", "modified_system_files"}

\* The sub-checks that read their metric from a command's output or status.
CommandChecks ==
    {"inode_usage", "system_updates", "failed_logins", "sudo_usage",
     "open_ports", "suspicious_processes", "firewall_status"}

\* The outcomes the code of sub-check name can meet.
outcomes_of(name) ==
    {"ok", "raises"}
        \cup (IF name \in PartialChecks THEN {"raises_late"} ELSE {})
        \cup (IF name \in CommandChecks THEN {"command_fails"} ELSE {})

\* n issues appended by sub-check name.
Found(name, n) == [i \in 1..n |-> [check |-> name, n |-> i]]

\* The list a sub-check returns: found is the number of issues it has appended
\* when it returns or when the exception is raised. except Exception returns
\* what was appended so far; _check_firewall_status appends firewall_disabled
\* whenever both commands end with a non-zero status.
sub_check(name, found, outcome) ==
    IF outcome = "ok" THEN Found(name, found)
    ELSE IF outcome = "raises_late" THEN Found(name, found)
    ELSE IF outcome = "command_fails" /\ name = "firewall_status" THEN Found(name, 1)
    ELSE <<>>

\* An invocation: the engine, the number of sub-checks that have returned,
\* the local list issues, what each sub-check returned and how it ended,
\* whether the global was assigned, and whether another invocation of the
\* same engine has been in progress during this one.
NoRun == [kind |-> "none", at |-> 0, issues |-> <<>>, parts |-> <<>>, stored |-> FALSE,
          overlap |-> FALSE]

\* ------------------------------------------------------------- auto_repair
\* An issue id is modelled as the sequence of its parts between underscores:
\* 'disk_usage__' is <<"disk", "usage", "", "">>, '' is <<"">>. NoneId is an
\* id that is no string.
NoneId == <<>>

\* The ids check_health can return that matter to the dispatcher: disk usage
\* on '/', and the ids _check_memory_usage and _check_cpu_load build.
HealthIds ==
    {<<"disk", "usage", "", "">>, <<"high", "memory", "usage">>, <<"high", "cpu", "usage">>}

\* The same for check_security.
SecurityIds ==
    {<<"unexpected", "open", "port", "8081">>, <<"suspicious", "process", "nc">>,
     <<"firewall", "disabled">>}

\* The ids repair_issue is called with: those, and what a caller may type.
IssueIds ==
    HealthIds \cup SecurityIds \cup
    {<<"cpu", "usage", "high">>, <<"memory", "usage", "high">>,
     <<"security", "updates", "available">>, <<"ssh", "brute", "force", "10", "0", "0", "1">>,
     <<"ssh", "brute", "force", "x">>, <<"disk", "usage">>, <<"cpu", "usage", "high", "">>,
     <<"suspicious", "processes">>, <<"">>, NoneId}

\* Issue lists of at most MaxIssues ids drawn from a set.
IdSeqs(S) == UNION {[1..n -> S] : n \in 0..MaxIssues}

\* issue_id.startswith(prefix + '_'), prefix given by its parts.
startswith(id, prefix) ==
    Len(id) > Len(prefix) /\ SubSeq(id, 1, Len(prefix)) = prefix

\* How a handler's run ends: its success branch; its own failure branch
\* (nothing to terminate, invalid address, no package manager); an exception
\* that reaches the handler's except; an exception raised by running kill,
\* caught by the try around it; a command run with check=False that fails.
Hows == {"done", "nothing", "raises", "kill_raises", "command_fails"}

\* A result dict; handler records which handler built it, raises is FALSE;
\* about is the mount point the message names, cleaned what the handler set
\* out to clean.
RepairResult(success, id, message, handler) ==
    [success |-> success, id |-> id, message |-> message, handler |-> handler,
     raises |-> FALSE, about |-> <<>>, cleaned |-> {}]

\* In place of a result: the call raises to its caller.
Raises == [success |-> FALSE, id |-> NoneId, message |-> "", handler |-> "none",
           raises |-> TRUE, about |-> <<>>, cleaned |-> {}]

\* What a handler returns: a success result from its success branch, also
\* after an exception the inner try has caught or a failed check=False
\* command; else a failure result.
handler_result(handler, id, how) ==
    IF how \in {"done", "kill_raises", "command_fails"}
    THEN RepairResult(TRUE, id, "done", handler)
    ELSE IF how = "nothing"
    THEN RepairResult(FALSE, id, "nothing to do", handler)
    ELSE RepairResult(FALSE, id, "Failed: " \o "exception", handler)

\* issue_id.replace('disk_usage_', '').replace('_', '/'), with a '/' put
\* before it when it does not start with one; in parts between slashes.
disk_mountpoint(id) ==
    LET rest == SubSeq(id, 3, Len(id)) IN
    IF Len(rest) >= 2 /\ rest[1] = "" THEN rest ELSE <<"">> \o rest

\* What _repair_disk_usage runs for a mount point.
disk_cleanup(mountpoint) ==
    IF mountpoint = <<"", "">>
    THEN {"package_cache", "rotated_logs", "temp_files"}
    ELSE {"temp_files"}

repair_disk_usage(id, how) ==
    LET mountpoint == disk_mountpoint(id)
        result == handler_result("_repair_disk_usage", id, how) IN
    IF result.success
    THEN [result EXCEPT !.message = "Cleaned up disk space on " \o "mountpoint",
                        !.about = mountpoint, !.cleaned = disk_cleanup(mountpoint)]
    ELSE result
\* A _repair_cpu_usage that answers with the id _check_cpu_load gives the issue.
repair_cpu_usage_monitor_id(how) ==
    handler_result("_repair_cpu_usage", <<"high", "cpu", "usage">>, how)

repair_cpu_usage(how) ==
    handler_result("_repair_cpu_usage", <<"cpu", "usage", "high">>, how)
repair_memory_usage(how) ==
    handler_result("_repair_memory_usage", <<"memory", "usage", "high">>, how)
repair_ssh_brute_force(id, how) == handler_result("_repair_ssh_brute_force", id, how)
repair_open_port(id, how) == handler_result("_repair_open_port", id, how)
repair_security_updates(how) ==
    handler_result("_repair_security_updates", <<"security", "updates", "available">>, how)
repair_suspicious_process(id, how) == handler_result("_repair_suspicious_process", id, how)

\* A dispatcher that also knows the ids _check_cpu_load and _check_memory_usage
\* give their issues.
handler_of_monitor_ids(id) ==
    IF id = NoneId THEN "error"
    ELSE IF startswith(id, <<"disk", "usage">>) THEN "_repair_disk_usage"
    ELSE IF id \in {<<"cpu", "usage", "high">>, <<"high", "cpu", "usage">>}
    THEN "_repair_cpu_usage"
    ELSE IF id \in {<<"memory", "usage", "high">>, <<"high", "memory", "usage">>}
    THEN "_repair_memory_usage"
    ELSE IF startswith(id, <<"ssh", "brute", "force">>) THEN "_repair_ssh_brute_force"
    ELSE IF startswith(id, <<"unexpected", "open", "port">>) THEN "_repair_open_port"
    ELSE IF id = <<"security", "updates", "available">> THEN "_repair_security_updates"
    ELSE IF startswith(id, <<"suspicious", "process">>) THEN "_repair_suspicious_process"
    ELSE "none"

\* The handler the dispatcher selects ("none": the else branch; "error": the
\* dispatch itself raises, as startswith on an id that is no string does).
handler_of(id) ==
    IF id = NoneId THEN "error"
    ELSE IF startswith(id, <<"disk", "usage">>) THEN "_repair_disk_usage"
    ELSE IF id = <<"cpu", "usage", "high">> THEN "_repair_cpu_usage"
    ELSE IF id = <<"memory", "usage", "high">> THEN "_repair_memory_usage"
    ELSE IF startswith(id, <<"ssh", "brute", "force">>) THEN "_repair_ssh_brute_force"
    ELSE IF startswith(id, <<"unexpected", "open", "port">>) THEN "_repair_open_port"
    ELSE IF id = <<"security", "updates", "available">> THEN "_repair_security_updates"
    ELSE IF startswith(id, <<"suspicious", "process">>) THEN "_repair_suspicious_process"
    ELSE "none"

\* The ways the code of a handler can end.
hows_of(handler) ==
    IF handler \in {"none", "error"} THEN {"done"}
    ELSE {"done", "raises"}
         \cup (IF handler \in {"_repair_disk_usage", "_repair_memory_usage"}
               THEN {} ELSE {"nothing"})
         \cup (IF handler \in {"_repair_cpu_usage", "_repair_memory_usage",
                                "_repair_suspicious_process"}
               THEN {"kill_raises"} ELSE {})
         \cup (IF handler = "_repair_security_updates" THEN {} ELSE {"command_fails"})

\* The body of repair_issue's try, the selected handler ending as how says.
dispatch(id, how) ==
    LET handler == handler_of(id) IN
    IF handler = "error" THEN Raises
    ELSE IF handler = "_repair_disk_usage" THEN repair_disk_usage(id, how)
    ELSE IF handler = "_repair_cpu_usage" THEN repair_cpu_usage(how)
    ELSE IF handler = "_repair_memory_usage" THEN repair_memory_usage(how)
    ELSE IF handler = "_repair_ssh_brute_force" THEN repair_ssh_brute_force(id, how)
    ELSE IF handler = "_repair_open_port" THEN repair_open_port(id, how)
    ELSE IF handler = "_repair_security_updates" THEN repair_security_updates(how)
    ELSE IF handler = "_repair_suspicious_process" THEN repair_suspicious_process(id, how)
    ELSE RepairResult(FALSE, id, "No repair method available for this issue", "none")

\* A repair_issue without its except.
repair_issue_propagates(id, how) == dispatch(id, how)

\* repair_issue(issue_id): what the try returns, or the except's result.
repair_issue(id, how) ==
    LET returned == dispatch(id, how) IN
    IF returned.raises
    THEN RepairResult(FALSE, id, "Error during repair: " \o "exception", "none")
    ELSE returned

NoRepair == [pc |-> "idle", checked |-> <<>>, health |-> <<>>, security |-> <<>>,
             all_issues |-> <<>>, attempted |-> <<>>, results |-> <<>>]
NoRepaired == [id |-> NoneId, how |-> "-", called |-> FALSE,
               result |-> RepairResult(FALSE, NoneId, "-", "none")]

\* ---------------------------------------------------- the health sub-checks
\* The sub-checks as functions of the state of the host they sample. An issue
\* is its id, in parts as above, and its severity.
DISK_USAGE_THRESHOLD == 90
MEMORY_USAGE_THRESHOLD == 90
CPU_USAGE_THRESHOLD == 90
INODE_USAGE_THRESHOLD == 90
SWAP_USAGE_THRESHOLD == 80
\* The percentage from which each of these sub-checks says high.
CriticalPercent == 95

\* Loads are counted in quarters, so LOAD_THRESHOLD_FACTOR = 1.5 is 6 quarters
\* for each core, and threshold * 1.5 is 9 quarters for each core.
LoadUnit == 4
LOAD_THRESHOLD_FACTOR == 6
HighLoadFactor == 9

issue(id, severity) == [id |-> id, severity |-> severity]

\* A mount point is the sequence of its parts between slashes: '/' is
\* <<"", "">>, '/data' is <<"", "data">>.
Root == <<"", "">>

\* any(x in mountpoint for x in ['/boot', '/dev', '/proc', '/sys']): some part
\* after a slash begins with one of the four names. Of the names the model
\* uses, "devel" begins with one without being one.
Special == {"boot", "dev", "proc", "sys"}
is_special(mountpoint) ==
    \E i \in 2..Len(mountpoint) : mountpoint[i] \in Special \cup {"devel"}

\* The parts between underscores of a part between slashes.
words(part) ==
    CASE part = "my_data" -> <<"my", "data">>
      [] OTHER -> <<part>>

RECURSIVE replace_slashes(_)
\* mountpoint.replace('/', '_'), in parts between underscores.
replace_slashes(mountpoint) ==
    IF mountpoint = <<>> THEN <<>>
    ELSE words(Head(mountpoint)) \o replace_slashes(Tail(mountpoint))

\* f"disk_usage_{mountpoint.replace('/', '_')}"
disk_usage_id(mountpoint) == <<"disk", "usage">> \o replace_slashes(mountpoint)
\* f"inode_usage_{mountpoint.replace('/', '_')}"
inode_usage_id(mountpoint) == <<"inode", "usage">> \o replace_slashes(mountpoint)

RECURSIVE check_disk_usage(_)
\* partitions: what psutil.disk_partitions and disk_usage say, in order.
check_disk_usage(partitions) ==
    IF partitions = <<>> THEN <<>>
    ELSE LET partition == Head(partitions) IN
         (IF /\ partition.fstype /\ ~is_special(partition.mountpoint)
             /\ partition.percent >= DISK_USAGE_THRESHOLD
          THEN <<issue(disk_usage_id(partition.mountpoint),
                       IF partition.percent >= CriticalPercent THEN "high" ELSE "medium")>>
          ELSE <<>>)
         \o check_disk_usage(Tail(partitions))

check_memory_usage(percent) ==
    IF percent >= MEMORY_USAGE_THRESHOLD
    THEN <<issue(<<"high", "memory", "usage">>,
                 IF percent >= CriticalPercent THEN "high" ELSE "medium")>>
    ELSE <<>>

\* load1 in quarters; cpu_percent the instantaneous usage.
check_cpu_load(cpu_count, load1, cpu_percent) ==
    LET threshold == cpu_count * LOAD_THRESHOLD_FACTOR IN
    (IF load1 > threshold
     THEN <<issue(<<"high", "cpu", "load">>,
                  IF load1 > cpu_count * HighLoadFactor THEN "high" ELSE "medium")>>
     ELSE <<>>)
    \o
    (IF cpu_percent >= CPU_USAGE_THRESHOLD
     THEN <<issue(<<"high", "cpu", "usage">>,
                  IF cpu_percent >= CriticalPercent THEN "high" ELSE "medium")>>
     ELSE <<>>)

\* zombies: how many processes have status zombie.
check_zombie_processes(zombies) ==
    IF zombies > 0
    THEN <<issue(<<"zombie", "processes">>, IF zombies > 10 THEN "medium" ELSE "low")>>
    ELSE <<>>

RECURSIVE check_inode_usage(_)
\* lines: the lines of df -i after the header, as mount point and IUse%.
check_inode_usage(lines) ==
    IF lines = <<>> THEN <<>>
    ELSE LET line == Head(lines) IN
         (IF ~is_special(line.mountpoint) /\ line.percent >= INODE_USAGE_THRESHOLD
          THEN <<issue(inode_usage_id(line.mountpoint),
                       IF line.percent >= CriticalPercent THEN "high" ELSE "medium")>>
          ELSE <<>>)
         \o check_inode_usage(Tail(lines))

\* A swap sub-check that says nothing at the threshold itself.
check_swap_usage_above(total, percent) ==
    IF total > 0 /\ percent > SWAP_USAGE_THRESHOLD
    THEN <<issue(<<"high", "swap", "usage">>,
                 IF percent >= CriticalPercent THEN "high" ELSE "medium")>>
    ELSE <<>>

check_swap_usage(total, percent) ==
    IF total > 0 /\ percent >= SWAP_USAGE_THRESHOLD
    THEN <<issue(<<"high", "swap", "usage">>,
                 IF percent >= CriticalPercent THEN "high" ELSE "medium")>>
    ELSE <<>>

\* listing: the output of apt list --upgradable holds "Listing...".
check_system_updates(returncode, listing) ==
    IF returncode = 0 /\ ~listing
    THEN <<issue(<<"system", "updates", "available">>, "low")>>
    ELSE <<>>

\* check_health on a host, every sub-check obtaining its metric.
health_issues_of(h) ==
    check_disk_usage(h.partitions)
    \o check_memory_usage(h.memory)
    \o check_cpu_load(h.cpu_count, h.load1, h.cpu_percent)
    \o check_zombie_processes(h.zombies)
    \o check_inode_usage(h.inodes)
    \o check_swap_usage(h.swap_total, h.swap)
    \o check_system_updates(h.apt, h.listing)

\* -------------------------------------------------- the security sub-checks
\* count: what wc -l printed; returncode: of the pipeline.
check_failed_logins(returncode, count) ==
    IF returncode = 0 /\ count > 10
    THEN <<issue(<<"failed", "login", "attempts">>, IF count > 50 THEN "high" ELSE "medium")>>
    ELSE <<>>

\* A sudo sub-check that counts from the threshold itself.
check_sudo_usage_from(returncode, count) ==
    IF returncode = 0 /\ count >= 5
    THEN <<issue(<<"unauthorized", "sudo", "usage">>, IF count > 20 THEN "high" ELSE "medium")>>
    ELSE <<>>

check_sudo_usage(returncode, count) ==
    IF returncode = 0 /\ count > 5
    THEN <<issue(<<"unauthorized", "sudo", "usage">>, IF count > 20 THEN "high" ELSE "medium")>>
    ELSE <<>>

\* An allow-list without the alternative HTTP port.
allowed_ports_without_8080 == {22, 80, 443, 3306, 5432, 8000}

allowed_ports == {22, 80, 443, 3306, 5432, 8000, 8080}

RECURSIVE open_port_issues(_)
\* for port in ports: one issue for each port that is not allowed.
open_port_issues(ports) ==
    IF ports = <<>> THEN <<>>
    ELSE (IF Head(ports) \notin allowed_ports
          THEN <<issue(<<"unexpected", "open", "port", ToString(Head(ports))>>, "medium")>>
          ELSE <<>>)
         \o open_port_issues(Tail(ports))

\* ports: the port of each line of ss -tuln that holds LISTEN, in order; the
\* pipeline returns non-zero when there is no such line.
check_open_ports(ports) ==
    LET returncode == IF ports = <<>> THEN 1 ELSE 0 IN
    IF returncode = 0 THEN open_port_issues(ports) ELSE <<>>

suspicious_names ==
    <<"nc", "netcat", "ncat", "nmap", "hydra", "medusa", "wireshark", "tcpdump",
      "metasploit", "backdoor", "rootkit">>

\* suspicious.lower() in process.lower(), for the process names of the model:
\* the suspicious names that are part of each.
names_in(process) ==
    CASE process = "nc" -> {"nc"}
      [] process = "ncat" -> {"nc", "ncat"}
      [] process = "nmap" -> {"nmap"}
      [] process = "rsync" -> {"nc"}
      [] OTHER -> {}

RECURSIVE processes_with(_, _)
\* for process in processes: one issue for each that holds the name.
processes_with(suspicious, processes) ==
    IF processes = <<>> THEN <<>>
    ELSE (IF suspicious \in names_in(Head(processes))
          THEN <<issue(<<"suspicious", "process", suspicious>>, "high")>>
          ELSE <<>>)
         \o processes_with(suspicious, Tail(processes))

RECURSIVE suspicious_issues(_, _)
\* for suspicious in suspicious_names: ...
suspicious_issues(names, processes) ==
    IF names = <<>> THEN <<>>
    ELSE processes_with(Head(names), processes) \o suspicious_issues(Tail(names), processes)

\* processes: the lines of ps -eo comm.
check_suspicious_processes(returncode, processes) ==
    IF returncode = 0 THEN suspicious_issues(suspicious_names, processes) ELSE <<>>

\* The basenames of critical_files, in parts.
critical_files ==
    <<<<"bash">>, <<"sh">>, <<"ls">>, <<"login">>, <<"su">>, <<"sudo">>, <<"passwd">>,
      <<"shadow">>, <<"sshd", "config">>>>

RECURSIVE modified_issues(_, _)
modified_issues(files, recent) ==
    IF files = <<>> THEN <<>>
    ELSE (IF Head(files) \in recent
          THEN <<issue(<<"modified", "system", "file">> \o Head(files), "high")>>
          ELSE <<>>)
         \o modified_issues(Tail(files), recent)

\* recent: the critical files that exist and were modified in the last 24 hours.
check_modified_system_files(recent) == modified_issues(critical_files, recent)

\* 'PermitRootLogin yes' in config, config being the lines of sshd_config:
\* the text is found in a line that holds it, commented out or not.
permits_root(config) ==
    \E i \in 1..Len(config) : config[i] \in {"PermitRootLogin yes", "#PermitRootLogin yes"}
\* 'PasswordAuthentication yes' in config
permits_passwords(config) ==
    \E i \in 1..Len(config) :
        config[i] \in {"PasswordAuthentication yes", "#PasswordAuthentication yes"}

\* An SSH sub-check for which root login is no worse than passwords.
check_ssh_config_lenient(exists, config) ==
    IF exists
    THEN (IF permits_root(config)
          THEN <<issue(<<"ssh", "root", "login", "enabled">>, "medium")>> ELSE <<>>)
         \o
         (IF permits_passwords(config)
          THEN <<issue(<<"ssh", "password", "auth", "enabled">>, "medium")>> ELSE <<>>)
    ELSE <<>>

check_ssh_config(exists, config) ==
    IF exists
    THEN (IF permits_root(config)
          THEN <<issue(<<"ssh", "root", "login", "enabled">>, "high")>> ELSE <<>>)
         \o
         (IF permits_passwords(config)
          THEN <<issue(<<"ssh", "password", "auth", "enabled">>, "medium")>> ELSE <<>>)
    ELSE <<>>

\* ufw, iptables: the return codes of the two pipelines.
check_firewall_status(ufw, iptables) ==
    IF ufw # 0 /\ iptables # 0
    THEN <<issue(<<"firewall", "disabled">>, "high")>>
    ELSE <<>>

\* check_security on a host, every sub-check obtaining its metric.
security_issues_of(h) ==
    check_failed_logins(0, h.failed_logins)
    \o check_sudo_usage(0, h.sudo_failures)
    \o check_open_ports(h.ports)
    \o check_suspicious_processes(0, h.processes)
    \o check_modified_system_files(h.recent)
    \o check_ssh_config(h.sshd_config_exists, h.sshd_config)
    \o check_firewall_status(h.ufw, h.iptables)

\* ------------------------------------------------ the handlers on a process table
\* A row of the process table: what ps, lsof and pgrep print of one process.
\* cpu and mem are the %CPU and %MEM columns in tenths of a percent; port is
\* the port the process listens on, 0 for none.
Tenths == 10
row(pid, comm, cpu, mem, port) ==
    [pid |-> pid, comm |-> comm, cpu |-> cpu, mem |-> mem, port |-> port]

\* os.getpid() of the daemon whose repair loop runs the handlers.
OwnPid == 1

\* head -11: the header and ten rows.
HeadRows == 10

\* ps aux --sort=-%cpu | head -11, and the same sorted by %mem: the rows that
\* fewer than ten rows precede (ties in the order of the pids).
top_cpu(t) ==
    {r \in t : Cardinality({q \in t : q.cpu > r.cpu \/ (q.cpu = r.cpu /\ q.pid < r.pid)})
                  < HeadRows}
top_mem(t) ==
    {r \in t : Cardinality({q \in t : q.mem > r.mem \/ (q.mem = r.mem /\ q.pid < r.pid)})
                  < HeadRows}

\* A selection that takes a share of 90 as well.
RunawayCpu == 90
high_cpu_pids_from_90(t) == {r.pid : r \in {q \in top_cpu(t) : q.cpu >= RunawayCpu * Tenths}}

\* if cpu_percent > 90: high_cpu_pids.append(pid)
high_cpu_pids(t) == {r.pid : r \in {q \in top_cpu(t) : q.cpu > RunawayCpu * Tenths}}

\* if mem_percent > 80: high_mem_pids.append(pid)
LeakingMem == 80
high_mem_pids(t) == {r.pid : r \in {q \in top_mem(t) : q.mem > LeakingMem * Tenths}}

\* lsof -i :{port} | grep LISTEN, its first line: of the processes that listen
\* on the port the id names, the first.
port_pids(id, t) ==
    LET listening == {r \in t : r.port # 0 /\ id = <<"unexpected", "open", "port", ToString(r.port)>>}
    IN {r.pid : r \in {q \in listening : \A o \in listening : q.pid <= o.pid}}

\* pgrep {process_name}: the processes whose name holds the name in the id.
pgrep_pids(id, t) ==
    {r.pid : r \in {q \in t : Len(id) = 3 /\ id[3] \in names_in(q.comm)}}

\* The pids a handler selects on the table, none for a handler that signals nothing.
selected_pids(handler, id, t) ==
    IF handler = "_repair_cpu_usage" THEN high_cpu_pids(t)
    ELSE IF handler = "_repair_memory_usage" THEN high_mem_pids(t)
    ELSE IF handler = "_repair_open_port" THEN port_pids(id, t)
    ELSE IF handler = "_repair_suspicious_process" THEN pgrep_pids(id, t)
    ELSE {}

KillHandlers ==
    {"_repair_cpu_usage", "_repair_memory_usage", "_repair_open_port",
     "_repair_suspicious_process"}

\* What happens around a handler while it runs: its first command fails (ps
\* or iptables, run with check=True, returns non-zero); running kill raises;
\* the processes that exit between the sampling and the kill; the write to
\* drop_caches is refused; /usr/bin/iptables-save exists.
surroundings(command_fails, kill_raises, gone, drop_fails, tool) ==
    [command_fails |-> command_fails, kill_raises |-> kill_raises, gone |-> gone,
     drop_fails |-> drop_fails, tool |-> tool]

\* socket.inet_aton(ip): the value of a part that is a decimal number, -1 for
\* any other text.
number(text) ==
    CASE text = "0" -> 0
      [] text = "1" -> 1
      [] text = "10" -> 10
      [] text = "256" -> 256
      [] OTHER -> -1

\* One to four numbers between dots; every number but the last is a byte and
\* the last fills the bytes that are left.
Byte == 256
RECURSIVE bytes(_)
bytes(n) == IF n = 0 THEN 1 ELSE Byte * bytes(n - 1)
inet_aton(ip) ==
    /\ Len(ip) \in 1..4
    /\ \A i \in 1..Len(ip) : number(ip[i]) >= 0
    /\ \A i \in 1..(Len(ip) - 1) : number(ip[i]) < Byte
    /\ number(ip[Len(ip)]) < bytes(5 - Len(ip))

\* issue_id.replace('ssh_brute_force_', '').replace('_', '.'), in parts
\* between dots.
ssh_ip(id) == SubSeq(id, 4, Len(id))

\* The path a handler takes on a table with these surroundings, as one of Hows.
how_of(handler, id, t, around) ==
    IF handler \in {"none", "error"} THEN "done"
    ELSE IF handler = "_repair_ssh_brute_force"
    THEN (IF ~inet_aton(ssh_ip(id)) THEN "nothing"
          ELSE IF around.command_fails THEN "raises"
          ELSE "done")
    ELSE IF handler \notin KillHandlers THEN (IF around.command_fails THEN "raises" ELSE "done")
    ELSE IF around.command_fails /\ handler \in {"_repair_cpu_usage", "_repair_memory_usage"}
    THEN "raises"
    ELSE IF around.command_fails THEN "nothing"
    ELSE IF selected_pids(handler, id, t) = {}
    THEN (IF handler = "_repair_memory_usage"
          THEN (IF around.drop_fails THEN "command_fails" ELSE "done")
          ELSE "nothing")
    ELSE IF around.kill_raises
    THEN (IF handler = "_repair_open_port" THEN "raises" ELSE "kill_raises")
    ELSE IF selected_pids(handler, id, t) \cap around.gone # {} THEN "command_fails"
    ELSE IF handler = "_repair_memory_usage" /\ around.drop_fails THEN "command_fails"
    ELSE "done"

\* The pids kill is run for, and those a signal reaches.
kill_targets(handler, id, t, around) ==
    IF handler \in KillHandlers /\ ~around.command_fails /\ ~around.kill_raises
    THEN selected_pids(handler, id, t)
    ELSE {}
kill_delivered(handler, id, t, around) == kill_targets(handler, id, t, around) \ around.gone

\* The commands _repair_ssh_brute_force runs, in order, and the address of
\* the rule that iptables -A appends (<<>>: no rule).
ssh_steps_unchecked(id, around) ==
    <<"iptables -A INPUT -s ip -j DROP">>
    \o (IF ~around.command_fails /\ around.tool THEN <<"iptables-save">> ELSE <<>>)
ssh_steps(id, around) ==
    IF ~inet_aton(ssh_ip(id)) THEN <<>> ELSE ssh_steps_unchecked(id, around)
ssh_rule(id, around) ==
    IF ssh_steps(id, around) # <<>> /\ ~around.command_fails THEN ssh_ip(id) ELSE <<>>

\* len(high_cpu_pids) in the message, 0 in a message without a number.
number_in(handler, id, t, how) ==
    IF handler \in {"_repair_cpu_usage", "_repair_memory_usage"}
       /\ how \in {"done", "kill_raises", "command_fails"}
    THEN Cardinality(selected_pids(handler, id, t))
    ELSE 0

\* One repair_issue(id) on the table: the handler it runs, what the handler
\* selects, runs and signals, and the result repair_issue returns.
issue_run(id, t, around) ==
    LET handler == handler_of(id)
        how == how_of(handler, id, t, around) IN
    [id |-> id, handler |-> handler, how |-> how,
     selected |-> IF how = "raises" /\ handler # "_repair_open_port" THEN {}
                  ELSE selected_pids(handler, id, t),
     targets |-> kill_targets(handler, id, t, around),
     delivered |-> kill_delivered(handler, id, t, around),
     drop |-> IF handler = "_repair_memory_usage" /\ ~around.command_fails
              THEN (IF around.drop_fails THEN "failed" ELSE "ok") ELSE "-",
     steps |-> IF handler = "_repair_ssh_brute_force" THEN ssh_steps(id, around) ELSE <<>>,
     rule |-> IF handler = "_repair_ssh_brute_force" THEN ssh_rule(id, around) ELSE <<>>,
     number |-> number_in(handler, id, t, how),
     result |-> repair_issue(id, how)]

RECURSIVE issue_runs(_, _, _)
\* for issue in ...: repair_issue(issue['id'])
issue_runs(ids, t, around) ==
    IF ids = <<>> THEN <<>>
    ELSE <<issue_run(Head(ids), t, around)>> \o issue_runs(Tail(ids), t, around)

\* The last caller of repair_issue on the table: who, on which table, what
\* was gone at the kill, whether iptables-save was there, the runs in order,
\* and how many callers ran so far.
NoSignal ==
    [by |-> "-", sample |-> {}, gone |-> {}, tool |-> FALSE, runs |-> <<>>, callers |-> 0]

\* ------------------------------------------------------------------ hosts
\* A host with nothing to report.
QuietHost ==
    [partitions |-> <<>>, memory |-> 0, cpu_count |-> 1, load1 |-> 0, cpu_percent |-> 0,
     zombies |-> 0, inodes |-> <<>>, swap_total |-> 1, swap |-> 0, apt |-> 0,
     listing |-> TRUE, failed_logins |-> 0, sudo_failures |-> 0, ports |-> <<>>,
     processes |-> <<>>, recent |-> {}, sshd_config_exists |-> TRUE, sshd_config |-> <<>>,
     ufw |-> 0, iptables |-> 0]

Percents == 0..MaxPercent
Mounts == {Root, <<"", "data">>, <<"", "boot">>, <<"", "srv", "devel">>, <<"", "my_data">>}
Ports == {22, 8080, 8081, 9000}
ProcessNames == {"nc", "ncat", "rsync", "sshd"}
ConfigLines ==
    {"PermitRootLogin yes", "#PermitRootLogin yes", "PermitRootLogin no",
     "PasswordAuthentication yes", "PasswordAuthentication no"}
SeqsUpTo(S, n) == UNION {[1..m -> S] : m \in 0..n}

partition(mountpoint, fstype, percent) ==
    [mountpoint |-> mountpoint, fstype |-> fstype, percent |-> percent]

\* The hosts that differ from the quiet one in what one sub-check samples.
Hosts ==
    {[QuietHost EXCEPT !.partitions = <<partition(m, TRUE, p)>>] :
        m \in {Root, <<"", "data">>}, p \in Percents}
    \cup {[QuietHost EXCEPT !.partitions = <<partition(m, f, p)>>] :
        m \in Mounts, f \in BOOLEAN, p \in {DISK_USAGE_THRESHOLD, CriticalPercent + 1}}
    \cup {[QuietHost EXCEPT !.memory = p] : p \in Percents}
    \cup {[QuietHost EXCEPT !.cpu_percent = p] : p \in Percents}
    \cup {[QuietHost EXCEPT !.cpu_count = c, !.load1 = l] : c \in 1..MaxCores, l \in 0..MaxLoad}
    \cup {[QuietHost EXCEPT !.zombies = n] : n \in {1, 11}}
    \cup {[QuietHost EXCEPT !.inodes = <<[mountpoint |-> m, percent |-> p]>>] :
        m \in {Root, <<"", "data">>}, p \in Percents}
    \cup {[QuietHost EXCEPT !.swap = p] : p \in Percents}
    \cup {[QuietHost EXCEPT !.swap_total = 0]}
    \cup {[QuietHost EXCEPT !.apt = a, !.listing = l] : a \in {0, 1}, l \in BOOLEAN}
    \cup {[QuietHost EXCEPT !.failed_logins = n] : n \in 0..MaxLogins}
    \cup {[QuietHost EXCEPT !.sudo_failures = n] : n \in 0..MaxSudo}
    \cup {[QuietHost EXCEPT !.ports = ports] : ports \in SeqsUpTo(Ports, MaxPorts)}
    \cup {[QuietHost EXCEPT !.processes = ps] : ps \in SeqsUpTo(ProcessNames, MaxProcesses)}
    \cup {[QuietHost EXCEPT !.recent = r] : r \in SUBSET {<<"bash">>, <<"sshd", "config">>}}
    \cup {[QuietHost EXCEPT !.sshd_config_exists = e, !.sshd_config = c] :
        e \in BOOLEAN, c \in SeqsUpTo(ConfigLines, MaxLines)}
    \cup {[QuietHost EXCEPT !.ufw = u, !.iptables = i] : u \in {0, 1}, i \in {0, 1}}

\* Hosts with several things to report at once.
BusyHosts ==
    {[QuietHost EXCEPT !.partitions = ps, !.memory = m, !.zombies = 1, !.ports = <<8081>>,
                       !.processes = procs,
                       !.sshd_config = <<"PermitRootLogin yes", "PasswordAuthentication yes">>] :
        ps \in {<<partition(<<"", "data">>, TRUE, 96)>>,
                <<partition(Root, TRUE, 92), partition(<<"", "data">>, TRUE, 96)>>},
        m \in {0, 96}, procs \in {<<>>, <<"nc">>}}

NoCycle == [pc |-> "idle", health |-> <<>>, security |-> <<>>, done |-> 0,
            attempted |-> <<>>, results |-> <<>>]

\* ------------------------------------------------------------ process tables
\* The daemon's own row, and rows of other processes.
OwnRows == {row(OwnPid, "python", c, 0, 0) : c \in {0, 950}}
OtherRows ==
    {row(2, "nc", c, 0, 8081) : c \in {900, 901}}
    \cup {row(2, "rsync", c, 0, 0) : c \in {900, 901}}
    \cup {row(3, "stress", c, m, 0) : c \in {0, 999}, m \in {800, 801}}
Tables ==
    {{own} \cup others : own \in OwnRows,
                         others \in {o \in SUBSET OtherRows : \A q, r \in o : q.pid = r.pid => q = r}}

\* The ids repair_issue is called with on a table.
SshTexts ==
    {<<"10", "0", "0", "1">>, <<"10", "1">>, <<"10", "0", "0", "256">>, <<"x">>, <<"">>,
     <<"10", "0", "0", "1", "1">>}
TableIds ==
    {<<"cpu", "usage", "high">>, <<"memory", "usage", "high">>, <<"high", "cpu", "usage">>,
     <<"unexpected", "open", "port", "8081">>, <<"suspicious", "process", "nc">>,
     <<"disk", "usage", "", "">>}
    \cup {<<"ssh", "brute", "force">> \o text : text \in SshTexts}

Surroundings ==
    {surroundings(c, k, g, d, tool) :
        c \in BOOLEAN, k \in BOOLEAN, g \in {{}, {2, 3}}, d \in BOOLEAN, tool \in BOOLEAN}

\* The surroundings that make a difference to a handler: kill and the
\* processes gone to the handlers that run kill, drop_caches to the memory
\* handler, iptables-save to the SSH handler.
surroundings_of(handler) ==
    {a \in Surroundings :
        /\ handler \in {"none", "error"} => ~a.command_fails
        /\ handler \notin KillHandlers => (~a.kill_raises /\ a.gone = {})
        /\ handler # "_repair_memory_usage" => ~a.drop_fails
        /\ handler # "_repair_ssh_brute_force" => ~a.tool}

\* ------------------------------------------------------------ initial state
Constructed ==
    /\ pidfile \in PidFiles
    /\ kind = [p \in Pids |-> "free"]
    /\ match = [p \in Pids |-> FALSE]
    /\ pc = [p \in Pids |-> "-"]
    /\ via = [p \in Pids |-> "-"]
    /\ done = [p \in Pids |-> <<>>]
    /\ threads = [p \in Pids |-> {}]
    /\ health_issues = [p \in Pids |-> <<>>]
    /\ security_issues = [p \in Pids |-> <<>>]
    /\ http_health = <<>>
    /\ http_security = <<>>
    /\ child1 = <<>>
    /\ stop = NoStop
    /\ exitcode = "-"
    /\ last = NoResult
    /\ budget = [calls |-> MaxCalls, env |-> MaxEnv]
    /\ run = [t \in Threads |-> NoRun]
    /\ cache = [k \in Kinds |-> <<>>]
    /\ finished = [k \in Kinds |-> {}]
    /\ seen = [k \in Kinds |-> <<>>]
    /\ work = [checks |-> MaxChecks, events |-> MaxEvents]
    /\ loop_thread = [l \in Loops |-> "none"]
    /\ stop_event = [l \in Loops |-> FALSE]
    /\ joiner = [l \in Loops |-> "idle"]
    /\ logged = [l \in Loops |-> "-"]
    /\ raised = [l \in Loops |-> FALSE]
    /\ repair = NoRepair
    /\ repaired = NoRepaired
    /\ held = [k \in Kinds |-> <<>>]
    /\ history = [k \in Kinds |-> <<>>]
    /\ cycle = NoCycle
    /\ signal = NoSignal

Init == Constructed /\ host = QuietHost /\ table = {}

\* ------------------------------------------------------- process helpers
\* Process p ends with the given status; its threads and memory go with it.
Exit(p, code) ==
    /\ kind' = [kind EXCEPT ![p] = "free"]
    /\ match' = [match EXCEPT ![p] = FALSE]
    /\ pc' = [pc EXCEPT ![p] = "-"]
    /\ via' = [via EXCEPT ![p] = "-"]
    /\ done' = [done EXCEPT ![p] = <<>>]
    /\ threads' = [threads EXCEPT ![p] = {}]
    /\ health_issues' = [health_issues EXCEPT ![p] = <<>>]
    /\ security_issues' = [security_issues EXCEPT ![p] = <<>>]
    /\ exitcode' = code

\* _handle_sigterm starts: _cleanup() then sys.exit(0).
handle_sigterm(p) ==
    /\ pc' = [pc EXCEPT ![p] = "cleanup"]
    /\ via' = [via EXCEPT ![p] = "handler"]
    /\ done' = [done EXCEPT ![p] = <<>>]
    /\ UNCHANGED <<kind, match, threads, health_issues, security_issues, exitcode>>

\* SIGTERM reaches live process p: the handler if signal.signal installed it,
\* else the default action; an unrelated process may ignore the signal.
Sigterm(p, ignore) ==
    IF kind[p] = "daemon" /\ pc[p] \in HandlerPcs
    THEN handle_sigterm(p)
    ELSE IF kind[p] = "other" /\ ignore
    THEN UNCHANGED procvars
    ELSE Exit(p, "SIGTERM")

\* A caller enters one of service.py's operations.
Called ==
    /\ budget.calls > 0
    /\ budget' = [budget EXCEPT !.calls = @ - 1]

\* The environment does something.
Happened ==
    /\ budget.env > 0
    /\ budget' = [budget EXCEPT !.env = @ - 1]

Result(op, ret, pre, by, h, s, sent) ==
    [op |-> op, ret |-> ret, pre |-> pre, by |-> by,
     health_issues |-> h, security_issues |-> s, sent |-> sent]

\* ------------------------------------------------------------ start_daemon
\* The caller's side of start_daemon: the is_daemon_running() test and the
\* first os.fork(). m is whether the caller's command line (which the child
\* inherits) has 'python' and 'up' in it; ok is whether os.fork() succeeds.
start_daemon(m, ok) ==
    /\ Called
    /\ Len(child1) < MaxPid
    /\ LET pre == PidClass(pidfile, kind, match) IN
       IF is_daemon_running(pidfile, kind, match)
       THEN /\ last' = Result("start", TRUE, pre, "cli", 0, 0, <<>>)
            /\ UNCHANGED <<pidfile, child1>>
       ELSE /\ pidfile' = pidfile_after_probe(pidfile, kind)
            /\ IF ok
               THEN /\ child1' = Append(child1, m)
                    /\ last' = Result("start", TRUE, pre, "cli", 0, 0, <<>>)
               ELSE /\ UNCHANGED child1
                    /\ last' = Result("start", FALSE, pre, "cli", 0, 0, <<>>)
    /\ UNCHANGED <<procvars, httpvars, stop>>
    /\ UNCHANGED enginevars

\* The first child: chdir, setsid, umask, second os.fork(), sys.exit(0);
\* sys.exit(1) when the fork raises OSError. q is the pid of the new process.
second_fork(q, ok) ==
    /\ child1 # <<>>
    /\ child1' = Tail(child1)
    /\ IF ok /\ kind[q] = "free"
       THEN /\ kind' = [kind EXCEPT ![q] = "daemon"]
            /\ match' = [match EXCEPT ![q] = Head(child1)]
            /\ pc' = [pc EXCEPT ![q] = "detached"]
            /\ UNCHANGED <<via, done, threads, health_issues, security_issues, exitcode>>
       ELSE UNCHANGED procvars
    /\ UNCHANGED <<pidfile, quiet, stop, last>>
    /\ UNCHANGED enginevars

\* The detached process opens /dev/null and the log file and dup2()s them;
\* an open() that raises ends the process with the exception.
redirect(p, ok) ==
    /\ kind[p] = "daemon" /\ pc[p] = "detached"
    /\ IF ok
       THEN /\ pc' = [pc EXCEPT ![p] = "redirected"]
            /\ UNCHANGED <<kind, match, via, done, threads, health_issues, security_issues, exitcode>>
       ELSE Exit(p, "exception")
    /\ UNCHANGED <<pidfile, quiet, child1, stop, last>>
    /\ UNCHANGED enginevars

\* with open(DAEMON_PID_FILE, 'w') as f: f.write(str(os.getpid()))
write_pid(p, ok) ==
    /\ kind[p] = "daemon" /\ pc[p] = "redirected"
    /\ IF ok
       THEN /\ pidfile' = PidOf(p)
            /\ pc' = [pc EXCEPT ![p] = "pidwritten"]
            /\ UNCHANGED <<kind, match, via, done, threads, health_issues, security_issues, exitcode>>
       ELSE /\ Exit(p, "exception")
            /\ UNCHANGED pidfile
    /\ UNCHANGED <<quiet, child1, stop, last>>
    /\ UNCHANGED enginevars

\* signal.signal(signal.SIGTERM, _handle_sigterm)
install_handler(p) ==
    /\ kind[p] = "daemon" /\ pc[p] = "pidwritten"
    /\ pc' = [pc EXCEPT ![p] = "handler"]
    /\ UNCHANGED <<pidfile, kind, match, via, done, threads, health_issues, security_issues,
                   exitcode, quiet, child1, stop, last>>
    /\ UNCHANGED enginevars

\* <loop module>.start(): clears the stop event and starts the loop thread.
loop_start(p, at, loop, next) ==
    /\ kind[p] = "daemon" /\ pc[p] = at
    /\ threads' = [threads EXCEPT ![p] = @ \cup {loop}]
    /\ pc' = [pc EXCEPT ![p] = next]
    /\ UNCHANGED <<pidfile, kind, match, via, done, health_issues, security_issues,
                   exitcode, quiet, child1, stop, last>>
    /\ UNCHANGED enginevars

start_health(p) == loop_start(p, "handler", "health", "health")
start_security(p) == loop_start(p, "health", "security", "security")
start_repair(p) == loop_start(p, "security", "repair", "main")

\* A main loop that sleeps on whether or not the PID file exists.
main_poll_sleeps_on(p) ==
    /\ kind[p] = "daemon" /\ pc[p] = "main"
    /\ UNCHANGED vars

\* One turn of while True: time.sleep(60); if not os.path.exists(PID file): _cleanup()...
main_poll(p) ==
    /\ kind[p] = "daemon" /\ pc[p] = "main"
    /\ IF pidfile.content = "absent"
       THEN /\ pc' = [pc EXCEPT ![p] = "cleanup"]
            /\ via' = [via EXCEPT ![p] = "poll"]
            /\ done' = [done EXCEPT ![p] = <<>>]
       ELSE UNCHANGED <<pc, via, done>>
    /\ UNCHANGED <<pidfile, kind, match, threads, health_issues, security_issues,
                   exitcode, quiet, child1, stop, last>>
    /\ UNCHANGED enginevars

\* --------------------------------------------------------------- _cleanup
\* A _cleanup that removes the PID file before it stops the loops.
cleanup_steps_unlink_first == <<"unlink", "health", "security", "repair">>

\* The statements of _cleanup, in the order it runs them.
cleanup_steps == <<"health", "security", "repair", "unlink">>

\* The statement of _cleanup that daemon process p runs next ("exit": none is left).
next_cleanup(p) ==
    IF Len(done[p]) < Len(cleanup_steps) THEN cleanup_steps[Len(done[p]) + 1] ELSE "exit"

\* <loop module>.stop(): sets the stop event and joins the loop thread for at
\* most 5 seconds; joined is whether the thread has ended when stop() returns.
loop_stop(p, loop, joined) ==
    /\ kind[p] = "daemon" /\ pc[p] = "cleanup" /\ next_cleanup(p) = loop
    /\ threads' = [threads EXCEPT ![p] = IF joined THEN @ \ {loop} ELSE @]
    /\ done' = [done EXCEPT ![p] = Append(@, loop)]
    /\ UNCHANGED <<pidfile, kind, match, pc, via, health_issues, security_issues,
                   exitcode, quiet, child1, stop, last>>
    /\ UNCHANGED enginevars

stop_health(p, joined) == loop_stop(p, "health", joined)
stop_security(p, joined) == loop_stop(p, "security", joined)
stop_repair(p, joined) == loop_stop(p, "repair", joined)

\* if os.path.exists(PID file): os.unlink(PID file)
remove_pid(p) ==
    /\ kind[p] = "daemon" /\ pc[p] = "cleanup" /\ next_cleanup(p) = "unlink"
    /\ pidfile' = Absent
    /\ done' = [done EXCEPT ![p] = Append(@, "unlink")]
    /\ UNCHANGED <<kind, match, pc, via, threads, health_issues, security_issues,
                   exitcode, quiet, child1, stop, last>>
    /\ UNCHANGED enginevars

\* sys.exit(0) after _cleanup, in _handle_sigterm and in the main loop.
exit_daemon(p) ==
    /\ kind[p] = "daemon" /\ pc[p] = "cleanup" /\ next_cleanup(p) = "exit"
    /\ Exit(p, "0")
    /\ UNCHANGED <<pidfile, quiet, child1, stop, last>>
    /\ UNCHANGED enginevars

\* ------------------------------------------------------------ check cycles
\* _monitor_loop of health_monitor: check_health() replaces _health_issues.
health_cycle(p, issues) ==
    /\ kind[p] = "daemon" /\ "health" \in threads[p]
    /\ health_issues' = [health_issues EXCEPT ![p] = issues]
    /\ UNCHANGED <<pidfile, kind, match, pc, via, done, threads, security_issues,
                   exitcode, quiet, child1, stop, last>>
    /\ UNCHANGED enginevars

\* _monitor_loop of security_monitor: check_security() replaces _security_issues.
security_cycle(p, issues) ==
    /\ kind[p] = "daemon" /\ "security" \in threads[p]
    /\ security_issues' = [security_issues EXCEPT ![p] = issues]
    /\ UNCHANGED <<pidfile, kind, match, pc, via, done, threads, health_issues,
                   exitcode, quiet, child1, stop, last>>
    /\ UNCHANGED enginevars

\* _repair_loop: check_health() and check_security() in the daemon process.
repair_cycle(p, h, s) ==
    /\ kind[p] = "daemon" /\ "repair" \in threads[p]
    /\ health_issues' = [health_issues EXCEPT ![p] = h]
    /\ security_issues' = [security_issues EXCEPT ![p] = s]
    /\ UNCHANGED <<pidfile, kind, match, pc, via, done, threads,
                   exitcode, quiet, child1, stop, last>>
    /\ UNCHANGED enginevars

\* views.system_health / views.system_security: a check in the HTTP process.
http_check_health(issues) ==
    /\ http_health' = issues
    /\ UNCHANGED <<pidfile, procvars, http_security, child1, stop, last, budget>>
    /\ UNCHANGED enginevars

http_check_security(issues) ==
    /\ http_security' = issues
    /\ UNCHANGED <<pidfile, procvars, http_health, child1, stop, last, budget>>
    /\ UNCHANGED enginevars

\* ----------------------------------------------------------- daemon_status
\* get_health_issues() / get_security_issues() in the calling process: a module
\* global of that process. A management command is a fresh interpreter.
get_health_issues(c) == IF c = "cli" THEN <<>> ELSE http_health
get_security_issues(c) == IF c = "cli" THEN <<>> ELSE http_security

\* daemon_status() called in process c. The issue counts are -1 when the
\* returned dict has no such key.
daemon_status(c) ==
    /\ Called
    /\ LET running == is_daemon_running(pidfile, kind, match) IN
       last' = Result("status", running, PidClass(pidfile, kind, match), c,
                      IF running THEN Len(get_health_issues(c)) ELSE -1,
                      IF running THEN Len(get_security_issues(c)) ELSE -1, <<>>)
    /\ pidfile' = pidfile_after_probe(pidfile, kind)
    /\ UNCHANGED <<procvars, httpvars, child1, stop>>
    /\ UNCHANGED enginevars

\* ------------------------------------------------------------- stop_daemon
\* stop_daemon up to the polling loop: the is_daemon_running() test, the read
\* of the PID file and os.kill(pid, SIGTERM).
stop_begin(ignore) ==
    /\ Called
    /\ stop.pc = "idle"
    /\ LET pre == PidClass(pidfile, kind, match) IN
       IF ~is_daemon_running(pidfile, kind, match)
       THEN /\ last' = Result("stop", TRUE, pre, "cli", 0, 0, <<>>)
            /\ pidfile' = pidfile_after_probe(pidfile, kind)
            /\ UNCHANGED <<procvars, stop>>
       ELSE /\ Sigterm(pidfile.pid, ignore)
            /\ stop' = [pc |-> "poll", pid |-> pidfile.pid, n |-> 0, pre |-> pre,
                        sent |-> <<"SIGTERM">>]
            /\ UNCHANGED <<pidfile, last>>
    /\ UNCHANGED <<httpvars, child1>>
    /\ UNCHANGED enginevars

\* One turn of for _ in range(10): if not is_daemon_running(): return True; sleep(1)
stop_poll ==
    /\ stop.pc = "poll" /\ stop.n < StopPolls
    /\ IF ~is_daemon_running(pidfile, kind, match)
       THEN /\ last' = Result("stop", TRUE, stop.pre, "cli", 0, 0, stop.sent)
            /\ pidfile' = pidfile_after_probe(pidfile, kind)
            /\ stop' = NoStop
       ELSE /\ stop' = [stop EXCEPT !.n = @ + 1]
            /\ UNCHANGED <<pidfile, last>>
    /\ UNCHANGED <<procvars, quiet, child1>>
    /\ UNCHANGED enginevars

\* An escalation that sends SIGKILL and leaves the PID file in place.
stop_escalate_keeps_pidfile ==
    /\ stop.pc = "poll" /\ stop.n = StopPolls
    /\ stop' = NoStop
    /\ IF is_daemon_running(pidfile, kind, match)
       THEN IF alive(kind, stop.pid)
            THEN /\ Exit(stop.pid, "SIGKILL")
                 /\ last' = Result("stop", TRUE, stop.pre, "cli", 0, 0, Append(stop.sent, "SIGKILL"))
                 /\ UNCHANGED pidfile
            ELSE /\ last' = Result("stop", FALSE, stop.pre, "cli", 0, 0, stop.sent)
                 /\ UNCHANGED <<pidfile, procvars>>
       ELSE /\ last' = Result("stop", TRUE, stop.pre, "cli", 0, 0, stop.sent)
            /\ pidfile' = pidfile_after_probe(pidfile, kind)
            /\ UNCHANGED procvars
    /\ UNCHANGED <<quiet, child1>>
    /\ UNCHANGED enginevars

\* After the loop: if is_daemon_running(): os.kill(pid, SIGKILL), unlink the
\* PID file if it exists; return True. os.kill raising is caught: return False.
stop_escalate ==
    /\ stop.pc = "poll" /\ stop.n = StopPolls
    /\ stop' = NoStop
    /\ IF is_daemon_running(pidfile, kind, match)
       THEN IF alive(kind, stop.pid)
            THEN /\ Exit(stop.pid, "SIGKILL")
                 /\ pidfile' = Absent
                 /\ last' = Result("stop", TRUE, stop.pre, "cli", 0, 0, Append(stop.sent, "SIGKILL"))
            ELSE /\ last' = Result("stop", FALSE, stop.pre, "cli", 0, 0, stop.sent)
                 /\ UNCHANGED <<pidfile, procvars>>
       ELSE /\ last' = Result("stop", TRUE, stop.pre, "cli", 0, 0, stop.sent)
            /\ pidfile' = pidfile_after_probe(pidfile, kind)
            /\ UNCHANGED procvars
    /\ UNCHANGED <<quiet, child1>>
    /\ UNCHANGED enginevars

\* ---------------------------------------------------------- the environment
\* Somebody else removes the PID file.
external_remove ==
    /\ Happened
    /\ pidfile.content # "absent"
    /\ pidfile' = Absent
    /\ UNCHANGED <<procvars, httpvars, child1, stop, last>>
    /\ UNCHANGED enginevars

\* Somebody else sends SIGTERM to a daemon process.
external_sigterm(p) ==
    /\ Happened
    /\ kind[p] = "daemon"
    /\ Sigterm(p, FALSE)
    /\ UNCHANGED <<pidfile, httpvars, child1, stop, last>>
    /\ UNCHANGED enginevars

\* An unrelated process starts and is given the free pid p.
other_spawn(p, m) ==
    /\ Happened
    /\ kind[p] = "free"
    /\ kind' = [kind EXCEPT ![p] = "other"]
    /\ match' = [match EXCEPT ![p] = m]
    /\ UNCHANGED <<pidfile, pc, via, done, threads, health_issues, security_issues,
                   exitcode, httpvars, child1, stop, last>>
    /\ UNCHANGED enginevars

\* An unrelated process ends.
other_exit(p) ==
    /\ kind[p] = "other"
    /\ kind' = [kind EXCEPT ![p] = "free"]
    /\ match' = [match EXCEPT ![p] = FALSE]
    /\ exitcode' = "other"
    /\ UNCHANGED <<pidfile, pc, via, done, threads, health_issues, security_issues,
                   quiet, child1, stop, last>>
    /\ UNCHANGED enginevars

\* ------------------------------------------- check_health / check_security
\* A sub-check that appends an issue or fails is an event of the run.
Eventful(found, outcome) == found > 0 \/ outcome # "ok"

\* Thread t enters check_health / check_security: issues = [].
check_begin(t, k) ==
    /\ run[t] = NoRun /\ k \in calls(t)
    /\ work.checks > 0
    /\ work' = [work EXCEPT !.checks = @ - 1]
    /\ LET others == {u \in Threads \ {t} : run[u].kind = k} IN
       run' = [u \in Threads |->
                  IF u = t THEN [NoRun EXCEPT !.kind = k, !.overlap = others # {}]
                  ELSE IF u \in others THEN [run[u] EXCEPT !.overlap = TRUE]
                  ELSE run[u]]
    /\ UNCHANGED <<cache, finished, seen, besides_checks>>

\* A check that extends the global list in place, sub-check by sub-check.
sub_check_step_in_place(t, found, outcome) ==
    /\ run[t].kind \in Kinds /\ run[t].at < Len(sub_checks(run[t].kind))
    /\ LET name == sub_checks(run[t].kind)[run[t].at + 1]
           ret == sub_check(name, found, outcome) IN
       /\ outcome \in outcomes_of(name)
       /\ outcome = "raises" => found = 0
       /\ outcome = "raises_late" => found > 0
       /\ IF Eventful(found, outcome)
          THEN work.events > 0 /\ work' = [work EXCEPT !.events = @ - 1]
          ELSE UNCHANGED work
       /\ run' = [run EXCEPT ![t] = [@ EXCEPT !.at = @ + 1,
                                               !.issues = @ \o ret,
                                               !.parts = Append(@, [out |-> outcome, ret |-> ret])]]
       /\ cache' = [cache EXCEPT ![run[t].kind] = run[t].issues \o ret]
    /\ UNCHANGED <<finished, seen, besides_checks>>

\* issues.extend(<the next sub-check>()).
sub_check_step(t, found, outcome) ==
    /\ run[t].kind \in Kinds /\ run[t].at < Len(sub_checks(run[t].kind))
    /\ LET name == sub_checks(run[t].kind)[run[t].at + 1]
           ret == sub_check(name, found, outcome) IN
       /\ outcome \in outcomes_of(name)
       /\ outcome = "raises" => found = 0
       /\ outcome = "raises_late" => found > 0
       /\ IF Eventful(found, outcome)
          THEN work.events > 0 /\ work' = [work EXCEPT !.events = @ - 1]
          ELSE UNCHANGED work
       /\ run' = [run EXCEPT ![t] = [@ EXCEPT !.at = @ + 1,
                                               !.issues = @ \o ret,
                                               !.parts = Append(@, [out |-> outcome, ret |-> ret])]]
    /\ UNCHANGED <<cache, finished, seen, besides_checks>>

\* A check that appends its issues to the previous cycle's.
check_store_merges(t) ==
    /\ run[t].kind \in Kinds /\ run[t].at = Len(sub_checks(run[t].kind))
    /\ ~run[t].stored
    /\ cache' = [cache EXCEPT ![run[t].kind] = @ \o run[t].issues]
    /\ run' = [run EXCEPT ![t].stored = TRUE]
    /\ UNCHANGED <<finished, seen, work, besides_checks>>

\* _health_issues = issues / _security_issues = issues
check_store(t) ==
    /\ run[t].kind \in Kinds /\ run[t].at = Len(sub_checks(run[t].kind))
    /\ ~run[t].stored
    /\ cache' = [cache EXCEPT ![run[t].kind] = run[t].issues]
    /\ run' = [run EXCEPT ![t].stored = TRUE]
    /\ UNCHANGED <<finished, seen, work, besides_checks>>

\* return issues
check_return(t) ==
    /\ run[t].kind \in Kinds /\ run[t].stored
    /\ finished' = [finished EXCEPT ![run[t].kind] = @ \cup {run[t].issues}]
    /\ run' = [run EXCEPT ![t] = NoRun]
    /\ UNCHANGED <<cache, seen, work, besides_checks>>

\* get_health_issues() / get_security_issues() in this process.
get_issues(k) ==
    /\ seen' = [seen EXCEPT ![k] = cache[k]]
    /\ UNCHANGED <<run, cache, finished, work, besides_checks>>

\* --------------------------------------------------------- the loop threads
\* _monitor_thread.is_alive() / _repair_thread.is_alive()
is_alive(l) == loop_thread[l] \notin {"none", "ended"}

\* start() of loop l: a log line and nothing else when the thread is alive;
\* else it clears the stop event and starts a thread, which comes to its
\* while test. start() and stop() are called by the daemon's main thread
\* only, so never during a join.
thread_start(l) ==
    /\ joiner[l] = "idle"
    /\ IF is_alive(l)
       THEN /\ logged' = [logged EXCEPT ![l] = "already_running"]
            /\ UNCHANGED <<loop_thread, stop_event, raised>>
       ELSE /\ stop_event' = [stop_event EXCEPT ![l] = FALSE]
            /\ loop_thread' = [loop_thread EXCEPT ![l] = "test"]
            /\ raised' = [raised EXCEPT ![l] = FALSE]
            /\ logged' = [logged EXCEPT ![l] = "started"]
    /\ UNCHANGED <<joiner, besides_loops>>

\* A loop that goes round whatever its stop event says.
loop_test_ignores_stop(l) ==
    /\ loop_thread[l] = "test"
    /\ loop_thread' = [loop_thread EXCEPT ![l] = "cycle"]
    /\ UNCHANGED <<stop_event, joiner, logged, raised, besides_loops>>

\* while not _stop_event.is_set():
loop_test(l) ==
    /\ loop_thread[l] = "test"
    /\ loop_thread' = [loop_thread EXCEPT ![l] = IF stop_event[l] THEN "ended" ELSE "cycle"]
    /\ UNCHANGED <<stop_event, joiner, logged, raised, besides_loops>>

\* The try body up to the wait (the check, the logging, the repairs) completes.
cycle_completes(l) ==
    /\ loop_thread[l] = "cycle"
    /\ loop_thread' = [loop_thread EXCEPT ![l] = "wait"]
    /\ UNCHANGED <<stop_event, joiner, logged, raised, besides_loops>>

\* A loop whose thread ends when its cycle raises.
cycle_raises_fatal(l) ==
    /\ loop_thread[l] = "cycle"
    /\ loop_thread' = [loop_thread EXCEPT ![l] = "ended"]
    /\ raised' = [raised EXCEPT ![l] = TRUE]
    /\ UNCHANGED <<stop_event, joiner, logged, besides_loops>>

\* The try body raises: except Exception logs and goes to the retry wait.
cycle_raises(l) ==
    /\ loop_thread[l] = "cycle"
    /\ loop_thread' = [loop_thread EXCEPT ![l] = "retry"]
    /\ raised' = [raised EXCEPT ![l] = TRUE]
    /\ UNCHANGED <<stop_event, joiner, logged, besides_loops>>

\* _stop_event.wait(...) returns, on the event or on the timeout, and the
\* thread comes back to its while test.
wait_returns(l) ==
    /\ loop_thread[l] \in {"wait", "retry"}
    /\ loop_thread' = [loop_thread EXCEPT ![l] = "test"]
    /\ UNCHANGED <<stop_event, joiner, logged, raised, besides_loops>>

\* stop() of loop l up to the join: "not running" when the thread is not
\* alive, else _stop_event.set() and join(timeout=5).
stop_set(l) ==
    /\ joiner[l] = "idle"
    /\ IF is_alive(l)
       THEN /\ stop_event' = [stop_event EXCEPT ![l] = TRUE]
            /\ joiner' = [joiner EXCEPT ![l] = "joining"]
            /\ logged' = [logged EXCEPT ![l] = IF l = "repair" THEN @ ELSE "stopping"]
       ELSE /\ logged' = [logged EXCEPT ![l] = "not_running"]
            /\ UNCHANGED <<stop_event, joiner>>
    /\ UNCHANGED <<loop_thread, raised, besides_loops>>

\* join(timeout=5) returns, because the thread has ended or (timed_out) after
\* 5 seconds, and stop() logs and returns. auto_repair.stop() logs "stopped"
\* without looking at the thread.
stop_join(l, timed_out) ==
    /\ joiner[l] = "joining"
    /\ timed_out = is_alive(l)
    /\ joiner' = [joiner EXCEPT ![l] = "idle"]
    /\ logged' = [logged EXCEPT ![l] =
                     IF l = "repair" THEN "stopped"
                     ELSE IF is_alive(l) THEN "non_graceful" ELSE "stopped"]
    /\ UNCHANGED <<loop_thread, stop_event, raised, besides_loops>>

\* -------------------------------------------------- repair_issue, repair_all
\* A caller (the repair command with --issue-id) calls repair_issue(id).
repair_call(id, how) ==
    /\ repair.pc = "idle"
    /\ how \in hows_of(handler_of(id))
    /\ repaired' = [id |-> id, how |-> how, called |-> TRUE, result |-> repair_issue(id, how)]
    /\ UNCHANGED <<repair, besides_repairs>>

\* repair_all up to its for loop: check_health(), check_security(),
\* all_issues = health_issues + security_issues. hs and ss are the ids of the
\* issues the two checks return.
repair_all_begin(hs, ss) ==
    /\ repair.pc \in {"idle", "returned"}
    /\ repair' = [pc |-> "loop", checked |-> <<"health", "security">>,
                  health |-> hs, security |-> ss,
                  all_issues |-> hs \o ss, attempted |-> <<>>, results |-> <<>>]
    /\ UNCHANGED <<repaired, besides_repairs>>

\* A repair_all that gives up at the first repair that fails.
repair_all_step_gives_up(how) ==
    /\ repair.pc = "loop" /\ Len(repair.results) < Len(repair.all_issues)
    /\ LET id == repair.all_issues[Len(repair.results) + 1]
           result == repair_issue(id, how) IN
       /\ how \in hows_of(handler_of(id))
       /\ repaired' = [id |-> id, how |-> how, called |-> TRUE, result |-> result]
       /\ repair' = [repair EXCEPT !.attempted = Append(@, id),
                                     !.results = Append(@, result),
                                     !.pc = IF result.success THEN "loop" ELSE "returned"]
    /\ UNCHANGED besides_repairs

\* One turn of for issue in all_issues: results.append(repair_issue(issue['id'])).
repair_all_step(how) ==
    /\ repair.pc = "loop" /\ Len(repair.results) < Len(repair.all_issues)
    /\ LET id == repair.all_issues[Len(repair.results) + 1]
           result == repair_issue(id, how) IN
       /\ how \in hows_of(handler_of(id))
       /\ repaired' = [id |-> id, how |-> how, called |-> TRUE, result |-> result]
       /\ repair' = [repair EXCEPT !.attempted = Append(@, id),
                                     !.results = Append(@, result)]
    /\ UNCHANGED besides_repairs

\* return results
repair_all_return ==
    /\ repair.pc = "loop" /\ Len(repair.results) = Len(repair.all_issues)
    /\ repair' = [repair EXCEPT !.pc = "returned"]
    /\ UNCHANGED <<repaired, besides_repairs>>

\* ------------------------------------------------------- checks of the host
RECURSIVE ids_of(_)
\* [issue['id'] for issue in issues]
ids_of(issues) ==
    IF issues = <<>> THEN <<>> ELSE <<Head(issues).id>> \o ids_of(Tail(issues))

issues_of(k, h) == IF k = "health" THEN health_issues_of(h) ELSE security_issues_of(h)

\* Something on the host changes.
host_changes(h) ==
    /\ h # host
    /\ host' = h
    /\ history' = [k \in Kinds |-> <<>>]
    /\ UNCHANGED <<held, cycle, repairvars, besides_host>>

RECURSIVE not_held(_, _)
\* The issues of a list whose id no issue of the held list has.
not_held(issues, old) ==
    IF issues = <<>> THEN <<>>
    ELSE (IF \E i \in 1..Len(old) : old[i].id = Head(issues).id
          THEN <<>> ELSE <<Head(issues)>>)
         \o not_held(Tail(issues), old)

\* A check that returns only what the cached list did not already hold.
host_check_reports_new(k) ==
    /\ Len(history[k]) < MaxCycles
    /\ LET issues == not_held(issues_of(k, host), held[k]) IN
       /\ held' = [held EXCEPT ![k] = issues]
       /\ history' = [history EXCEPT
                         ![k] = Append(@, [held |-> held[k], returned |-> issues])]
    /\ UNCHANGED <<host, cycle, repairvars, besides_host>>

\* check_health() or check_security(), every sub-check obtaining its metric:
\* the list is built from the host, cached and returned.
host_check(k) ==
    /\ Len(history[k]) < MaxCycles
    /\ LET issues == issues_of(k, host) IN
       /\ held' = [held EXCEPT ![k] = issues]
       /\ history' = [history EXCEPT
                         ![k] = Append(@, [held |-> held[k], returned |-> issues])]
    /\ UNCHANGED <<host, cycle, repairvars, besides_host>>

\* repair_all on the host: its two checks and all_issues.
repair_all_on_host ==
    /\ held' = [k \in Kinds |-> issues_of(k, host)]
    /\ repair.pc \in {"idle", "returned"}
    /\ repair' = [pc |-> "loop", checked |-> <<"health", "security">>,
                  health |-> ids_of(health_issues_of(host)),
                  security |-> ids_of(security_issues_of(host)),
                  all_issues |-> ids_of(health_issues_of(host) \o security_issues_of(host)),
                  attempted |-> <<>>, results |-> <<>>]
    /\ UNCHANGED <<repaired, host, history, cycle, besides_host>>

\* ------------------------------------------------------------- _repair_loop
\* A cycle up to its for loop: check_health(), check_security().
loop_cycle_checks ==
    /\ cycle.pc \in {"idle", "wait"}
    /\ held' = [k \in Kinds |-> issues_of(k, host)]
    /\ cycle' = [pc |-> "for", health |-> health_issues_of(host),
                 security |-> security_issues_of(host), done |-> 0,
                 attempted |-> <<>>, results |-> <<>>]
    /\ UNCHANGED <<host, history, repairvars, besides_host>>

\* A loop that leaves only the issues of severity low alone.
loop_cycle_step_above_low(how) ==
    /\ cycle.pc = "for" /\ cycle.done < Len(cycle.health \o cycle.security)
    /\ LET found == (cycle.health \o cycle.security)[cycle.done + 1] IN
       IF found.severity # "low"
       THEN /\ how \in hows_of(handler_of(found.id))
            /\ cycle' = [cycle EXCEPT !.done = @ + 1,
                                      !.attempted = Append(@, found.id),
                                      !.results = Append(@, repair_issue(found.id, how))]
       ELSE /\ how = "done"
            /\ cycle' = [cycle EXCEPT !.done = @ + 1]
    /\ UNCHANGED <<host, held, history, repairvars, besides_host>>

\* One turn of for issue in health_issues + security_issues:
\* if issue['severity'] == 'high': repair_issue(issue['id']).
loop_cycle_step(how) ==
    /\ cycle.pc = "for" /\ cycle.done < Len(cycle.health \o cycle.security)
    /\ LET found == (cycle.health \o cycle.security)[cycle.done + 1] IN
       IF found.severity = "high"
       THEN /\ how \in hows_of(handler_of(found.id))
            /\ cycle' = [cycle EXCEPT !.done = @ + 1,
                                      !.attempted = Append(@, found.id),
                                      !.results = Append(@, repair_issue(found.id, how))]
       ELSE /\ how = "done"
            /\ cycle' = [cycle EXCEPT !.done = @ + 1]
    /\ UNCHANGED <<host, held, history, repairvars, besides_host>>

\* _stop_event.wait(_repair_interval)
loop_cycle_waits ==
    /\ cycle.pc = "for" /\ cycle.done = Len(cycle.health \o cycle.security)
    /\ cycle' = [cycle EXCEPT !.pc = "wait"]
    /\ UNCHANGED <<host, held, history, repairvars, besides_host>>

\* ------------------------------------------------- repair_issue on a table
RECURSIVE rows_in_order(_)
\* The rows of a table in the order of the pids.
rows_in_order(t) ==
    IF t = {} THEN <<>>
    ELSE LET first == CHOOSE r \in t : \A q \in t : r.pid <= q.pid
         IN <<first>> \o rows_in_order(t \ {first})

RECURSIVE comms(_)
comms(rows) == IF rows = <<>> THEN <<>> ELSE <<Head(rows).comm>> \o comms(Tail(rows))
RECURSIVE listening_ports(_)
listening_ports(rows) ==
    IF rows = <<>> THEN <<>>
    ELSE (IF Head(rows).port # 0 THEN <<Head(rows).port>> ELSE <<>>)
         \o listening_ports(Tail(rows))

RECURSIVE high_ids(_)
\* if issue['severity'] == 'high': the ids of those issues, in order.
high_ids(issues) ==
    IF issues = <<>> THEN <<>>
    ELSE (IF Head(issues).severity = "high" THEN <<Head(issues).id>> ELSE <<>>)
         \o high_ids(Tail(issues))

\* The processes a signal reached end.
after_signals(t, runs) ==
    {r \in t : \A i \in 1..Len(runs) : r.pid \notin runs[i].delivered}

\* A caller (management command, HTTP view) calls repair_issue(id).
repair_on_table(id, around) ==
    /\ signal.callers < MaxRuns
    /\ around \in surroundings_of(handler_of(id))
    /\ LET runs == issue_runs(<<id>>, table, around) IN
       /\ signal' = [by |-> "call", sample |-> table, gone |-> around.gone, tool |-> around.tool, runs |-> runs,
                     callers |-> signal.callers + 1]
       /\ table' = after_signals(table, runs)
    /\ UNCHANGED besides_signals

\* One cycle of _repair_loop in the daemon: check_health and check_security
\* sample the host (memory and cpu_percent as given, ports and process names
\* from the table), and repair_issue runs for each issue of severity high.
loop_on_table(memory, cpu_percent, around) ==
    /\ signal.callers < MaxRuns
    /\ \E own \in table : own.pid = OwnPid
    /\ around \in surroundings_of("_repair_suspicious_process")
    /\ LET rows == rows_in_order(table)
           found_health == check_memory_usage(memory) \o check_cpu_load(1, 0, cpu_percent)
           found_security == check_open_ports(listening_ports(rows))
                              \o check_suspicious_processes(0, comms(rows))
           runs == issue_runs(high_ids(found_health \o found_security), table, around) IN
       /\ signal' = [by |-> "loop", sample |-> table, gone |-> around.gone, tool |-> around.tool, runs |-> runs,
                     callers |-> signal.callers + 1]
       /\ table' = after_signals(table, runs)
    /\ UNCHANGED besides_signals

\* ------------------------------------------------------------ specification
\* A first-fork child detaches, and daemon process p goes through start_daemon.
StartupStep ==
    \/ \E q \in Pids, ok \in BOOLEAN : second_fork(q, ok)
    \/ \E p \in Pids, ok \in BOOLEAN : redirect(p, ok)
    \/ \E p \in Pids, ok \in BOOLEAN : write_pid(p, ok)
    \/ \E p \in Pids : install_handler(p)
    \/ \E p \in Pids : start_health(p)
    \/ \E p \in Pids : start_security(p)
    \/ \E p \in Pids : start_repair(p)
    \/ \E p \in Pids : main_poll(p)

\* Daemon process p goes through _cleanup and sys.exit(0).
Shutdown(p) ==
    \/ \E joined \in BOOLEAN : stop_health(p, joined)
    \/ \E joined \in BOOLEAN : stop_security(p, joined)
    \/ \E joined \in BOOLEAN : stop_repair(p, joined)
    \/ remove_pid(p)
    \/ exit_daemon(p)

ShutdownStep == \E p \in Pids : Shutdown(p)

\* A check cycle in a daemon process or in the HTTP process.
CycleStep ==
    \/ \E p \in Pids, i \in IssueSeqs : health_cycle(p, i)
    \/ \E p \in Pids, i \in IssueSeqs : security_cycle(p, i)
    \/ \E p \in Pids, h \in IssueSeqs, i \in IssueSeqs : repair_cycle(p, h, i)
    \/ \E i \in IssueSeqs : http_check_health(i)
    \/ \E i \in IssueSeqs : http_check_security(i)

StartCall == \E m \in BOOLEAN, ok \in BOOLEAN : start_daemon(m, ok)
StopCall == \E ignore \in BOOLEAN : stop_begin(ignore)
StatusCall == \E c \in Callers : daemon_status(c)

\* stop_daemon goes on.
StopStep == stop_poll \/ stop_escalate

EnvStep ==
    \/ external_remove
    \/ \E p \in Pids : external_sigterm(p)
    \/ \E p \in Pids, m \in BOOLEAN : other_spawn(p, m)
    \/ \E p \in Pids : other_exit(p)

\* The lifecycle: callers, daemon processes, the environment.
Next ==
    \/ StartupStep
    \/ ShutdownStep
    \/ StartCall
    \/ StopCall
    \/ StatusCall
    \/ StopStep
    \/ EnvStep

Spec == Init /\ [][Next]_vars

\* The lifecycle under the scheduler: a daemon process that can take a step
\* of _cleanup eventually takes it, and the main loop's sleep(60) returns.
Fairness ==
    \A p \in Pids : WF_vars(main_poll(p)) /\ WF_vars(Shutdown(p))

FairSpec == Spec /\ Fairness

\* start_daemon is the only operation called, and nothing else interferes.
NextStart == StartupStep \/ StartCall

SpecStart == Init /\ [][NextStart]_vars

\* Daemons are started and queried while the check loops run.
NextStatus == StartupStep \/ CycleStep \/ StartCall \/ StatusCall

SpecStatus == Init /\ [][NextStatus]_vars

\* The check engines of one process, called by its threads concurrently,
\* with no daemon lifecycle going on.
InitEngine == Init /\ pidfile = Absent

NextCheck ==
    \/ \E t \in Threads, k \in Kinds : check_begin(t, k)
    \/ \E t \in Threads, found \in 0..MaxFound, outcome \in Outcomes :
          sub_check_step(t, found, outcome)
    \/ \E t \in Threads : check_store(t)
    \/ \E t \in Threads : check_return(t)
    \/ \E k \in Kinds : get_issues(k)

SpecCheck == InitEngine /\ [][NextCheck]_vars

\* The three loop threads of one process and the callers of start() and stop().
NextLoop ==
    \/ \E l \in Loops : thread_start(l)
    \/ \E l \in Loops : loop_test(l)
    \/ \E l \in Loops : cycle_completes(l)
    \/ \E l \in Loops : cycle_raises(l)
    \/ \E l \in Loops : wait_returns(l)
    \/ \E l \in Loops : stop_set(l)
    \/ \E l \in Loops, timed_out \in BOOLEAN : stop_join(l, timed_out)

SpecLoop == InitEngine /\ [][NextLoop]_vars

\* Callers of repair_issue and repair_all.
NextRepair ==
    \/ \E id \in IssueIds, how \in Hows : repair_call(id, how)
    \/ \E hs \in IdSeqs(HealthIds), ss \in IdSeqs(SecurityIds) : repair_all_begin(hs, ss)
    \/ \E how \in Hows : repair_all_step(how)
    \/ repair_all_return

SpecRepair == InitEngine /\ [][NextRepair]_vars

\* The two engines on a host that changes.
InitHost == Constructed /\ pidfile = Absent /\ host \in Hosts \cup BusyHosts /\ table = {}

NextHost ==
    \/ \E h \in BusyHosts : host_changes(h)
    \/ \E k \in Kinds : host_check(k)

SpecHost == InitHost /\ [][NextHost]_vars

\* repair_all on a host.
NextHostRepair ==
    \/ repair_all_on_host
    \/ \E how \in Hows : repair_all_step(how)
    \/ repair_all_return

SpecHostRepair == InitHost /\ [][NextHostRepair]_vars

\* The repair loop on a host.
NextHostLoop ==
    \/ loop_cycle_checks
    \/ \E how \in Hows : loop_cycle_step(how)
    \/ loop_cycle_waits

SpecHostLoop == InitHost /\ [][NextHostLoop]_vars

\* The loop threads under the scheduler: a wait whose event is set returns,
\* and a thread at its while test evaluates it.
FairLoop ==
    \A l \in Loops : WF_vars(loop_test(l)) /\ WF_vars(stop_event[l] /\ wait_returns(l))

FairSpecLoop == SpecLoop /\ FairLoop

\* repair_issue on a process table, called from outside and by the repair loop.
InitTable == Constructed /\ pidfile = Absent /\ host = QuietHost /\ table \in Tables

NextTable ==
    \/ \E id \in TableIds, around \in Surroundings : repair_on_table(id, around)
    \/ \E memory \in {0, 96}, cpu_percent \in {0, 96}, around \in Surroundings :
          loop_on_table(memory, cpu_percent, around)

SpecTable == InitTable /\ [][NextTable]_vars

\* ------------------------------------------------------------------ claims
\* The daemon instances: the processes inside start_daemon's main loop.
Instances == {p \in Pids : kind[p] = "daemon" /\ pc[p] = "main"}

\* This step is a call of daemon_status.
StatusReturns == budget'.calls < budget.calls /\ last'.op = "status"

\* In this step stop_daemon returns to its caller.
StopReturns ==
    \/ stop.pc = "idle" /\ stop'.pc = "idle" /\ budget'.calls < budget.calls
       /\ last'.op = "stop"
    \/ stop.pc = "poll" /\ stop'.pc = "idle"

\* In this step daemon process p ends by sys.exit(0).
Exits(p) == kind[p] = "daemon" /\ pc[p] = "cleanup" /\ kind'[p] = "free" /\ exitcode' = "0"

\* In this step daemon process p, going on, removes the PID file.
Unlinks(p) ==
    /\ kind[p] = "daemon" /\ kind'[p] = "daemon" /\ done'[p] # done[p]
    /\ pidfile # Absent /\ pidfile' = Absent

\* Every daemon process was started from a command line that
\* is_daemon_running recognises (an entry with 'python', an entry with 'up').
Recognised == \A p \in Pids : kind[p] = "daemon" => match[p]

\* C1: when start_daemon is the only operation called, however the calls
\* fall relative to the detached children, at most one daemon instance runs
\* (stated for daemons whose command line is_daemon_running recognises).
C1_SecondStartIsNoOp == Recognised => Cardinality(Instances) <= 1

\* C2: at most one daemon instance is alive, and a PID file that exists while
\* an instance is alive holds that instance's pid (stated for daemons whose
\* command line is_daemon_running recognises).
C2_SingleInstance ==
    Recognised =>
        /\ Cardinality(Instances) <= 1
        /\ \A p \in Instances : pidfile.content # "absent" => pidfile = PidOf(p)

\* C3: in the state stop_daemon returns in, daemon_status reports
\* running=False and the PID file does not exist.
C3_StopThenStatus ==
    [][StopReturns =>
          /\ ~is_daemon_running(pidfile', kind', match')
          /\ pidfile_after_probe(pidfile', kind') = Absent
          /\ pidfile' = Absent]_vars

\* C4: is_daemon_running holds only if the PID file holds the pid of a live
\* process that is a daemon of this program, and start_daemon forks nothing
\* while is_daemon_running holds.
C4_RunningMeansDaemon ==
    /\ [](is_daemon_running(pidfile, kind, match) => kind[pidfile.pid] = "daemon")
    /\ [][is_daemon_running(pidfile, kind, match) => child1' = child1]_vars

C6_StopEscalation ==
    [][/\ (stop.pc = "idle" /\ stop'.pc = "poll")
            => /\ pidfile = PidOf(stop'.pid)
               /\ stop'.sent = <<"SIGTERM">>
               /\ stop'.n = 0
       /\ stop'.pc = "poll" => stop'.n <= 10
       /\ (\E p \in Pids : kind[p] # "free" /\ kind'[p] = "free" /\ exitcode' = "SIGKILL")
            => /\ stop.pc = "poll" /\ stop.n = 10
               /\ stop.sent = <<"SIGTERM">>
               /\ is_daemon_running(pidfile, kind, match)
               /\ last' = Result("stop", TRUE, stop.pre, "cli", 0, 0, <<"SIGTERM", "SIGKILL">>)
               /\ pidfile' = Absent]_vars

C6_Witness ==
    /\ last.op = "stop" /\ last.ret /\ last.sent = <<"SIGTERM", "SIGKILL">>
    /\ exitcode = "SIGKILL" /\ pidfile = Absent /\ stop.pc = "idle"

\* C7: a daemon in its main loop whose PID file is gone and stays gone
\* ends by sys.exit(0), and on that path only after stop() has returned on
\* all three loops; the main loop leaves only when the PID file does not exist.
C7_RemovalShutsDown ==
    /\ \A p \in Pids :
          (kind[p] = "daemon" /\ pc[p] = "main" /\ pidfile = Absent)
              ~> ((kind[p] = "free" /\ exitcode = "0") \/ pidfile # Absent)
    /\ [][\A p \in Pids :
              /\ (kind[p] = "daemon" /\ pc[p] = "main" /\ pc'[p] # "main"
                     /\ via'[p] = "poll")
                   => pidfile = Absent
              /\ (Exits(p) /\ via[p] = "poll")
                   => {"health", "security", "repair"}
                          \subseteq {done[p][i] : i \in 1..Len(done[p])}]_vars

C7_Witness ==
    \E p \in Pids : /\ kind[p] = "daemon" /\ via[p] = "poll" /\ next_cleanup(p) = "exit"
                     /\ pidfile = Absent

\* C8: a status query on a PID file that is no integer or names no live
\* process returns running=False and leaves the file deleted; on a missing
\* PID file it returns running=False and creates nothing.
C8_StaleSelfHeal ==
    [][StatusReturns =>
          LET class == PidClass(pidfile, kind, match) IN
          class \in {"garbage", "dead", "absent"}
              => ~last'.ret /\ pidfile' = Absent]_vars

C8_Witness ==
    /\ last.op = "status" /\ last.pre \in {"garbage", "dead"}
    /\ ~last.ret /\ pidfile = Absent

\* C9: start_daemon has returned success only if no step of the daemon's
\* setup has failed.
C9_SetupFailureReported ==
    exitcode = "exception" => ~(last.op = "start" /\ last.ret)

\* C10: while a daemon runs, daemon_status from any process reports the
\* lengths of the running daemon's cached issue sequences.
C10_StatusCounts ==
    [][(StatusReturns /\ last'.ret /\ kind[pidfile.pid] = "daemon")
          => /\ last'.health_issues = Len(health_issues[pidfile.pid])
             /\ last'.security_issues = Len(security_issues[pidfile.pid])]_vars

\* ------------------------------------------------------- claims: the engines
RECURSIVE Flatten(_)
\* The concatenation of a sequence of sequences.
Flatten(ss) == IF ss = <<>> THEN <<>> ELSE Head(ss) \o Flatten(Tail(ss))

\* The lists the sub-checks of thread t's invocation have returned, in call order.
Returned(t) == [i \in 1..Len(run[t].parts) |-> run[t].parts[i].ret]

\* The same, with the empty list for every sub-check that did not obtain its metric.
ReturnedOk(t) ==
    [i \in 1..Len(run[t].parts) |->
        IF run[t].parts[i].out = "ok" THEN run[t].parts[i].ret ELSE <<>>]

\* In this step thread t's invocation returns to its caller.
CheckReturns(t) == run[t].kind \in Kinds /\ run'[t] = NoRun

\* The sequences of engine k whose invocation has run all its sub-checks.
Complete(k) ==
    finished[k] \cup {run[t].issues : t \in {u \in Threads :
                          run[u].kind = k /\ run[u].at = Len(sub_checks(k))}}

\* C11: whatever a reader has obtained from get_health_issues (resp.
\* get_security_issues) is the initial empty sequence or the whole sequence of
\* an invocation that has run all its sub-checks, and so is the cached value.
C11_NoPartialCache ==
    \A k \in Kinds : /\ (seen[k] = <<>> \/ seen[k] \in Complete(k))
                      /\ (cache[k] = <<>> \/ cache[k] \in Complete(k))

C11_Witness ==
    \E k \in Kinds : \E t \in Threads, u \in Threads :
        /\ t # u /\ run[t].kind = k /\ run[u].kind = k
        /\ run[t].stored /\ seen[k] = run[t].issues /\ seen[k] # <<>>
        /\ run[u].at < Len(sub_checks(k)) /\ run[u].issues # <<>>
        /\ run[u].issues # seen[k]

\* C12: the sequence an invocation returns is the concatenation, in the
\* order of the sub-check list, of what its sub-checks returned, each
\* sub-check in its own place; and when no other invocation of the engine
\* overlapped it, the cached sequence is then exactly the returned one.
C12_FreshOrderedCache ==
    [][\A t \in Threads : CheckReturns(t) =>
          LET k == run[t].kind IN
          /\ Len(run[t].parts) = Len(sub_checks(k))
          /\ run[t].issues = Flatten(Returned(t))
          /\ \A i \in 1..Len(run[t].parts) :
                \A j \in 1..Len(run[t].parts[i].ret) :
                    run[t].parts[i].ret[j].check = sub_checks(k)[i]
          /\ (~run[t].overlap => cache'[k] = run[t].issues)]_vars

C12_Witness ==
    \E k \in Kinds :
        /\ \A t \in Threads : run[t] = NoRun
        /\ Cardinality(finished[k]) = 2 /\ <<>> \notin finished[k]
        /\ cache[k] \in finished[k] /\ seen[k] \in finished[k] /\ seen[k] # cache[k]

\* C13: an invocation returns exactly the issues of the sub-checks that
\* obtained their metric; a sub-check that did not contributes none.
C13_FailedSubCheckSilent ==
    [][\A t \in Threads : CheckReturns(t) =>
          run[t].issues = Flatten(ReturnedOk(t))]_vars

\* --------------------------------------------------------- claims: the loops
\* In this step stop() of loop l returns from its join.
StopReturnsFromJoin(l) == joiner[l] = "joining" /\ joiner'[l] = "idle"

\* C14: a loop thread ends only with its stop event set; a cycle, raising or
\* not, is followed by a wait, the retry wait when it raised, and the wait by
\* the while test, which starts another cycle unless the stop event is set.
C14_LoopsSurviveFaults ==
    [][\A l \in Loops :
          /\ (loop_thread[l] # "ended" /\ loop_thread'[l] = "ended") => stop_event[l]
          /\ (loop_thread[l] = "cycle" /\ loop_thread'[l] # "cycle")
                => /\ loop_thread'[l] \in {"wait", "retry"}
                   /\ (raised'[l] /\ ~raised[l]) => loop_thread'[l] = "retry"
          /\ (loop_thread[l] = "retry" /\ loop_thread'[l] # "retry")
                => loop_thread'[l] = "test"
          /\ (loop_thread[l] = "test" /\ loop_thread'[l] # "test" /\ ~stop_event[l])
                => loop_thread'[l] = "cycle"]_vars

C14_Witness ==
    \E l \in Loops : raised[l] /\ loop_thread[l] = "cycle" /\ ~stop_event[l]

\* C15: when stop() of a loop returns from its join with the thread still
\* alive, it has set the stop event, leaves the thread as it is, and has
\* logged the stop as not graceful, whichever of the three loops it is.
C15_StopIsCooperative ==
    [][\A l \in Loops :
          (StopReturnsFromJoin(l) /\ is_alive(l))
              => /\ stop_event[l]
                 /\ loop_thread'[l] = loop_thread[l]
                 /\ logged'[l] = "non_graceful"]_vars

\* C16: a loop thread in its wait or its retry wait with the stop event set
\* ends, and on the way starts no cycle: from the wait it goes only to the
\* while test and from there only to its end, the event staying set.
C16_StopInterruptsWait ==
    /\ \A l \in Loops :
          (loop_thread[l] \in {"wait", "retry"} /\ stop_event[l])
              ~> (loop_thread[l] = "ended")
    /\ [][\A l \in Loops :
              (stop_event[l] /\ loop_thread[l] \in {"wait", "retry", "test"})
                  => /\ stop_event'[l]
                     /\ loop_thread'[l] # loop_thread[l]
                           => (IF loop_thread[l] = "test"
                               THEN loop_thread'[l] = "ended"
                               ELSE loop_thread'[l] = "test")]_vars

C16_Witness ==
    \E l \in Loops : /\ loop_thread[l] = "ended" /\ stop_event[l]
                      /\ raised[l] /\ joiner[l] = "joining"

\* --------------------------------------------------------- claims: repairs
\* The dispatcher's patterns as the contract lists them.
Prefixes ==
    {<<"disk", "usage">>, <<"ssh", "brute", "force">>, <<"unexpected", "open", "port">>,
     <<"suspicious", "process">>}
Exacts ==
    {<<"cpu", "usage", "high">>, <<"memory", "usage", "high">>,
     <<"security", "updates", "available">>}
Matches(id) ==
    \/ id \in Exacts
    \/ \E prefix \in Prefixes :
          Len(id) > Len(prefix) /\ \A i \in 1..Len(prefix) : id[i] = prefix[i]

\* C17: for an id that matches none of the dispatcher's patterns repair_issue
\* returns success False, the given id and a non-empty message, runs no
\* handler and does not raise.
C17_UnmatchedIdFails ==
    (repaired.called /\ ~Matches(repaired.id)) =>
        /\ ~repaired.result.raises
        /\ ~repaired.result.success
        /\ repaired.result.id = repaired.id
        /\ repaired.result.message # ""
        /\ repaired.result.handler = "none"

C17_Witness ==
    /\ repaired.called /\ repaired.id = <<"cpu", "usage", "high", "">>
    /\ ~repaired.result.success /\ repaired.result.handler = "none"

\* C18: whatever fault is raised inside the selected handler or the command it
\* runs, repair_issue returns success False and does not raise.
Faults == {"raises", "kill_raises"}
C18_HandlerFaultFails ==
    (repaired.called /\ repaired.how \in Faults) =>
        ~repaired.result.success /\ ~repaired.result.raises

\* C19: repair_all runs check_health and check_security once each, calls
\* repair_issue for each returned issue, health issues first, and returns one
\* result per issue; a failed repair does not stop the remaining ones.
C19_RepairAllAttemptsAll ==
    /\ repair.pc \in {"loop", "returned"} =>
          /\ repair.checked = <<"health", "security">>
          /\ Len(repair.results) = Len(repair.attempted)
          /\ \A i \in 1..Len(repair.attempted) :
                repair.attempted[i] = (repair.health \o repair.security)[i]
    /\ repair.pc = "returned" =>
          /\ repair.attempted = repair.health \o repair.security
          /\ Len(repair.results) = Len(repair.health) + Len(repair.security)

C19_Witness ==
    /\ repair.pc = "returned"
    /\ Len(repair.health) = 1 /\ Len(repair.security) = 1
    /\ Len(repair.results) = 2
    /\ ~repair.results[1].success /\ repair.results[2].success

\* C20: on every dispatch path the result of repair_issue(id) has id as its
\* id field.
C20_ResultEchoesId ==
    /\ repaired.called => repaired.result.id = repaired.id
    /\ \A i \in 1..Len(repair.results) : repair.results[i].id = repair.attempted[i]

C20_Witness ==
    /\ repaired.called /\ repaired.id = <<"cpu", "usage", "high">>
    /\ repaired.result.handler = "_repair_cpu_usage"
    /\ repaired.how = "nothing" /\ repaired.result.id = repaired.id

\* ------------------------------------------------- claims: what is repaired
\* The handler that goes with an issue of the five kinds, by the sub-check
\* that emits it ("any": an issue of another kind).
Among(found, issues) == \E i \in 1..Len(issues) : issues[i] = found
Begins(id, parts) == Len(id) >= Len(parts) /\ SubSeq(id, 1, Len(parts)) = parts
HandlerFor(found) ==
    IF \E p \in Percents : Among(found, check_cpu_load(1, 0, p)) THEN "_repair_cpu_usage"
    ELSE IF \E p \in Percents : Among(found, check_memory_usage(p)) THEN "_repair_memory_usage"
    ELSE IF Begins(found.id, <<"disk", "usage">>) THEN "_repair_disk_usage"
    ELSE IF Begins(found.id, <<"unexpected", "open", "port">>) THEN "_repair_open_port"
    ELSE IF Begins(found.id, <<"suspicious", "process">>) THEN "_repair_suspicious_process"
    ELSE "any"

\* C21: repair_issue applied to the id of an issue that check_health or
\* check_security emits for high CPU usage, high memory usage, high disk
\* usage, an unexpected open port or a suspicious process runs the handler
\* that goes with it, not the no-handler branch.
C21_EmittedIdsAreDispatched ==
    \A i \in 1..Len(repair.results) :
        LET found == (held["health"] \o held["security"])[i] IN
        HandlerFor(found) # "any" => repair.results[i].handler = HandlerFor(found)

\* C22: with disk usage at 96% on /data, check_health emits an issue with id
\* disk_usage_data and severity high, and repairing it attempts the
\* package-cache and rotated-log cleanup and succeeds with a message that
\* names /data.
DataAt96 == partition(<<"", "data">>, TRUE, 96)
C22_DataDiskScenario ==
    (repair.pc = "returned" /\ Among(DataAt96, host.partitions)) =>
        /\ Among(issue(<<"disk", "usage", "data">>, "high"), held["health"])
        /\ \A i \in 1..Len(repair.results) :
              (repair.results[i].handler = "_repair_disk_usage"
               /\ repair.results[i].about = <<"", "data">>
               /\ repair.results[i].success) =>
                  {"package_cache", "rotated_logs"} \subseteq repair.results[i].cleaned

\* --------------------------------------------------- claims: the thresholds
\* The severity of the issue with an id in a list ("none": no such issue).
SeverityOf(id, issues) ==
    IF \E i \in 1..Len(issues) : issues[i].id = id
    THEN issues[CHOOSE i \in 1..Len(issues) : issues[i].id = id].severity
    ELSE "none"

Checked(k) == history[k] # <<>>

\* A value at the lower boundary gives no issue, one at the critical boundary
\* gives medium, one a unit above the critical boundary gives high.
AtBoundaries(value, lower, critical, severity) ==
    /\ value = lower => severity = "none"
    /\ value = critical => severity = "medium"
    /\ value = critical + 1 => severity = "high"

\* The partitions and df lines that the sub-checks look at.
Examined(p) == p.fstype /\ ~is_special(p.mountpoint)

\* C23: for every threshold pair a value equal to a boundary is classified at
\* the lower tier and a value one unit above the critical boundary is high.
C23_BoundaryIsLowerTier ==
    /\ Checked("health") =>
          /\ \A i \in 1..Len(host.partitions) :
                Examined(host.partitions[i]) =>
                    AtBoundaries(host.partitions[i].percent, 90, 95,
                                 SeverityOf(disk_usage_id(host.partitions[i].mountpoint),
                                            held["health"]))
          /\ AtBoundaries(host.memory, 90, 95,
                          SeverityOf(<<"high", "memory", "usage">>, held["health"]))
          /\ \A i \in 1..Len(host.inodes) :
                ~is_special(host.inodes[i].mountpoint) =>
                    AtBoundaries(host.inodes[i].percent, 90, 95,
                                 SeverityOf(inode_usage_id(host.inodes[i].mountpoint),
                                            held["health"]))
          /\ AtBoundaries(host.cpu_percent, 90, 95,
                          SeverityOf(<<"high", "cpu", "usage">>, held["health"]))
          /\ host.swap_total > 0 =>
                AtBoundaries(host.swap, 80, 95,
                             SeverityOf(<<"high", "swap", "usage">>, held["health"]))
          /\ AtBoundaries(host.load1, 6 * host.cpu_count, 9 * host.cpu_count,
                          SeverityOf(<<"high", "cpu", "load">>, held["health"]))
    /\ Checked("security") =>
          /\ AtBoundaries(host.failed_logins, 10, 50,
                          SeverityOf(<<"failed", "login", "attempts">>, held["security"]))
          /\ AtBoundaries(host.sudo_failures, 5, 20,
                          SeverityOf(<<"unauthorized", "sudo", "usage">>, held["security"]))

PercentTier(p, medium, high) ==
    IF p >= high THEN "high" ELSE IF p >= medium THEN "medium" ELSE "none"

\* C24: for a percentage p in 0..100 the disk, memory, inode and
\* instantaneous-CPU sub-checks emit nothing when p < 90, medium when
\* 90 <= p < 95 and high when p >= 95; the swap sub-check emits nothing when
\* p < 80, medium when 80 <= p < 95 and high when p >= 95. For disk and inode
\* the partitions are those the sub-check looks at.
C24_PercentTiers ==
    Checked("health") =>
        /\ \A i \in 1..Len(host.partitions) :
              Examined(host.partitions[i]) =>
                  SeverityOf(disk_usage_id(host.partitions[i].mountpoint), held["health"])
                      = PercentTier(host.partitions[i].percent, 90, 95)
        /\ SeverityOf(<<"high", "memory", "usage">>, held["health"])
              = PercentTier(host.memory, 90, 95)
        /\ \A i \in 1..Len(host.inodes) :
              ~is_special(host.inodes[i].mountpoint) =>
                  SeverityOf(inode_usage_id(host.inodes[i].mountpoint), held["health"])
                      = PercentTier(host.inodes[i].percent, 90, 95)
        /\ SeverityOf(<<"high", "cpu", "usage">>, held["health"])
              = PercentTier(host.cpu_percent, 90, 95)
        /\ SeverityOf(<<"high", "swap", "usage">>, held["health"])
              = PercentTier(host.swap, 80, 95)

C24_Witness ==
    /\ Checked("health") /\ host.swap = 80
    /\ held["health"] = <<issue(<<"high", "swap", "usage">>, "medium")>>

\* C25: with c cores and a 1-minute load L the CPU-load sub-check emits
\* high_cpu_load with severity medium when L >= 1.5*c, high when L >= 2.25*c,
\* and no high_cpu_load when L < 1.5*c. host.load1 is L * LoadUnit.
C25_LoadTiers ==
    Checked("health") =>
        SeverityOf(<<"high", "cpu", "load">>, held["health"])
            = IF 4 * host.load1 >= 9 * host.cpu_count * LoadUnit THEN "high"
              ELSE IF 2 * host.load1 >= 3 * host.cpu_count * LoadUnit THEN "medium"
              ELSE "none"

CountTier(n, medium, high) ==
    IF n > high THEN "high" ELSE IF n > medium THEN "medium" ELSE "none"

\* C26: for a count n the failed-authentication sub-check emits nothing when
\* n <= 10, medium when 10 < n <= 50 and high when n > 50; the sudo sub-check
\* emits nothing when n <= 5, medium when 5 < n <= 20 and high when n > 20.
C26_CountTiers ==
    Checked("security") =>
        /\ SeverityOf(<<"failed", "login", "attempts">>, held["security"])
              = CountTier(host.failed_logins, 10, 50)
        /\ SeverityOf(<<"unauthorized", "sudo", "usage">>, held["security"])
              = CountTier(host.sudo_failures, 5, 20)

C26_Witness ==
    /\ Checked("security") /\ host.failed_logins = 51
    /\ held["security"] = <<issue(<<"failed", "login", "attempts">>, "high")>>

\* ------------------------------------------------ claims: the security checks
Range(seq) == {seq[i] : i \in 1..Len(seq)}
AllowList == {22, 80, 443, 3306, 5432, 8000, 8080}
PortId(port) == <<"unexpected", "open", "port", ToString(port)>>

\* C27: check_security emits a medium unexpected_open_port_<port> issue for
\* each observed listening port outside the allow-list and for no port in it;
\* with every observed port in the allow-list there is no such issue.
C27_OpenPorts ==
    Checked("security") =>
        /\ \A port \in Range(host.ports) \ AllowList :
              Among(issue(PortId(port), "medium"), held["security"])
        /\ \A found \in Range(held["security"]) :
              Begins(found.id, <<"unexpected", "open", "port">>) =>
                  \E port \in Range(host.ports) \ AllowList : found = issue(PortId(port), "medium")

C27_Witness ==
    /\ Checked("security") /\ host.ports = <<8080, 8081>>
    /\ held["security"] = <<issue(PortId(8081), "medium")>>

Count(id, issues) == Cardinality({i \in 1..Len(issues) : issues[i].id = id})

\* C28: when sshd_config enables root login the list of one check_security
\* cycle holds exactly one ssh_root_login_enabled issue, of severity high;
\* when it enables password authentication, exactly one
\* ssh_password_auth_enabled issue, of severity medium.
C28_SshFlagsOnce ==
    (Checked("security") /\ host.sshd_config_exists) =>
        /\ "PermitRootLogin yes" \in Range(host.sshd_config) =>
              /\ Count(<<"ssh", "root", "login", "enabled">>, held["security"]) = 1
              /\ SeverityOf(<<"ssh", "root", "login", "enabled">>, held["security"]) = "high"
        /\ "PasswordAuthentication yes" \in Range(host.sshd_config) =>
              /\ Count(<<"ssh", "password", "auth", "enabled">>, held["security"]) = 1
              /\ SeverityOf(<<"ssh", "password", "auth", "enabled">>, held["security"]) = "medium"

C28_Witness ==
    /\ Checked("security")
    /\ host.sshd_config = <<"PermitRootLogin yes", "PermitRootLogin yes">>
    /\ held["security"] = <<issue(<<"ssh", "root", "login", "enabled">>, "high")>>

IdSet(issues) == {issues[i].id : i \in 1..Len(issues)}

RECURSIVE HighIds(_)
\* The ids of the issues of severity high, in order.
HighIds(issues) ==
    IF issues = <<>> THEN <<>>
    ELSE (IF Head(issues).severity = "high" THEN <<Head(issues).id>> ELSE <<>>)
         \o HighIds(Tail(issues))

\* C30: in a cycle of the repair loop repair_issue is called for exactly the
\* issues of severity high that the cycle's check_health and check_security
\* returned, once each and in order, and for no issue of severity low or medium.
C30_LoopRepairsHighOnly ==
    /\ cycle.pc = "for" =>
          cycle.attempted = HighIds(SubSeq(cycle.health \o cycle.security, 1, cycle.done))
    /\ cycle.pc = "wait" =>
          /\ cycle.attempted = HighIds(cycle.health \o cycle.security)
          /\ Len(cycle.results) = Len(cycle.attempted)

C30_Witness ==
    /\ cycle.pc = "wait"
    /\ Len(cycle.attempted) >= 2
    /\ \E found \in Range(cycle.health \o cycle.security) : found.severity = "medium"
    /\ \E found \in Range(cycle.health \o cycle.security) : found.severity = "low"

\* ---------------------------------------------- claims: the handlers that signal
\* The runs of one handler in the last caller's record.
RunsOf(handler) ==
    {signal.runs[i] : i \in {j \in 1..Len(signal.runs) : signal.runs[j].handler = handler}}
Above(percent, column) ==
    {r.pid : r \in {q \in signal.sample : (IF column = "cpu" THEN q.cpu ELSE q.mem) > percent * Tenths}}

\* C31: when its ps sample is obtained and kill can be run, the CPU handler
\* runs kill for exactly the sampled processes whose %CPU is above 90; with
\* at least one such process it returns success True and a message with
\* their number; with none it signals nothing and returns success False.
C31_CpuHandlerSignals ==
    \A r \in RunsOf("_repair_cpu_usage") :
        r.how \notin {"raises", "kill_raises"} =>
            /\ r.targets = Above(90, "cpu")
            /\ Above(90, "cpu") # {} => (r.result.success /\ r.number = Cardinality(Above(90, "cpu")))
            /\ Above(90, "cpu") = {} => (~r.result.success /\ r.targets = {})

C31_Witness ==
    \E r \in RunsOf("_repair_cpu_usage") :
        /\ r.how = "done"
        /\ Cardinality(r.targets) = 2
        /\ r.number = 2
        /\ \E q \in signal.sample : q.cpu = 90 * Tenths /\ q.pid \notin r.targets

\* C32: when no sampled process is above 80% memory, the memory handler
\* returns success True only if the cache drop succeeded; with the cache drop
\* failed and no such process the result is not success True.
C32_CacheDropNeeded ==
    \A r \in RunsOf("_repair_memory_usage") :
        (Above(80, "mem") = {} /\ r.result.success) => r.drop = "ok"

\* The texts of the model that are IPv4 addresses in numbers-and-dots notation.
AddressTexts == {<<"10", "0", "0", "1">>, <<"10", "1">>}
IptablesAppend == "iptables -A INPUT -s ip -j DROP"

\* C33: for an id ssh_brute_force_<x> the handler appends a firewall rule
\* only when <x> is a valid address; the rule then names exactly that address
\* and the rule set is saved after the rule was appended, never before; when
\* <x> is no valid address the handler returns success False, runs no
\* command, appends no rule and does not raise.
C33_RuleOnlyForValidAddress ==
    \A r \in RunsOf("_repair_ssh_brute_force") :
        LET x == SubSeq(r.id, 4, Len(r.id)) IN
        /\ r.rule # <<>> =>
              /\ x \in AddressTexts
              /\ r.rule = x
              /\ r.result.success
              /\ r.steps[1] = IptablesAppend
              /\ signal.tool => r.steps = <<IptablesAppend, "iptables-save">>
        /\ \A i \in 1..Len(r.steps) : r.steps[i] = "iptables-save" => (i = 2 /\ r.rule # <<>>)
        /\ x \notin AddressTexts =>
              /\ ~r.result.success
              /\ ~r.result.raises
              /\ r.rule = <<>>
              /\ r.steps = <<>>

C33_Witness ==
    /\ \E r \in RunsOf("_repair_ssh_brute_force") :
          r.rule = <<"10", "1">> /\ r.steps = <<IptablesAppend, "iptables-save">>
    /\ signal.tool

\* The runs of the four handlers that run kill.
KillRuns ==
    {signal.runs[i] : i \in {j \in 1..Len(signal.runs) : signal.runs[j].handler \in KillHandlers}}

\* C34: when every process a CPU, memory, open-port or suspicious-process
\* handler selected has exited before kill is run for it, the handler does
\* not raise and returns success False.
C34_GoneIsFailure ==
    \A r \in KillRuns :
        (r.targets # {} /\ r.targets \subseteq signal.gone) =>
            (~r.result.raises /\ ~r.result.success)

\* The half of C34 about raising, on its own.
C34_GoneDoesNotRaise ==
    \A r \in KillRuns :
        (r.targets # {} /\ r.targets \subseteq signal.gone) => ~r.result.raises

\* C38: no handler that the repair loop of the daemon runs sends a signal to
\* the daemon's own process: whatever processes run and whatever issues of
\* severity high the cycle's checks return, kill is not run for the pid of
\* the daemon.
C38_LoopSparesDaemon ==
    signal.by = "loop" =>
        \A i \in 1..Len(signal.runs) : OwnPid \notin signal.runs[i].targets

C38_Witness ==
    /\ signal.by = "loop"
    /\ \E own \in signal.sample : own.pid = OwnPid /\ own.cpu > 90 * Tenths
    /\ \E i \in 1..Len(signal.runs) : signal.runs[i].id = <<"high", "cpu", "usage">>
    /\ \E i \in 1..Len(signal.runs) :
          signal.runs[i].handler = "_repair_suspicious_process" /\ signal.runs[i].targets # {}

\* --------------------------------------------------- claims: start after stop
\* C35: for each of the three loops, once start() returns the loop is active,
\* whatever start() and stop() calls went before: its thread is alive and its
\* stop event is clear (so the thread's next while test lets a cycle run),
\* also when the stop() before returned from its join on the timeout with
\* the old thread still in a cycle.
C35_StartActivates ==
    [][\A l \in Loops :
          thread_start(l) => (loop_thread'[l] \notin {"none", "ended"} /\ ~stop_event'[l])]_vars

\* ------------------------------------------------------ claims: distinct ids
Distinct(ids) == \A i, j \in 1..Len(ids) : i # j => ids[i] # ids[j]

\* C36: the ids of the issues that one check_health or one check_security
\* invocation returns are pairwise distinct, whatever the host holds, and
\* repair_all calls repair_issue for no id twice in one run.
C36_DistinctIds ==
    /\ \A k \in Kinds : Distinct(ids_of(held[k]))
    /\ Distinct(repair.attempted)

\* ------------------------------------------------- claims: the mount point
\* The partitions for which _check_disk_usage appends an issue, in order.
Emits(part_) ==
    /\ part_.fstype
    /\ ~is_special(part_.mountpoint)
    /\ part_.percent >= DISK_USAGE_THRESHOLD
Emitting == SelectSeq(host.partitions, Emits)

\* C37: for every mount point for which the disk sub-check emits an issue,
\* the mount point that _repair_disk_usage derives from the issue's id is that
\* mount point, also for '/' and for a mount point with an underscore in it.
C37_MountRoundTrip ==
    \A i \in 1..Len(repair.results) :
        (i <= Len(Emitting) /\ repair.results[i].success) =>
            /\ repair.results[i].handler = "_repair_disk_usage"
            /\ repair.results[i].about = Emitting[i].mountpoint

\* ------------------------------------------------- claims: whom stop signals
\* In this step stop_daemon sends SIGTERM, or SIGKILL, to pid p.
SendsSigterm(p) == stop.pc = "idle" /\ stop'.pc = "poll" /\ stop'.pid = p
SendsSigkill(p) ==
    /\ stop.pc = "poll" /\ stop'.pc = "idle" /\ stop.pid = p
    /\ last'.sent = Append(stop.sent, "SIGKILL")
\* In this step stop_daemon deletes the PID file of the live daemon p.
StopDeletesFileOf(p) ==
    /\ stop.pc = "poll" /\ stop'.pc = "idle"
    /\ pidfile = PidOf(p) /\ kind[p] = "daemon" /\ pidfile' = Absent

\* C39: stop_daemon sends SIGTERM or SIGKILL only to a process that is the
\* daemon (no signal when the PID file is absent, invalid, or names a process
\* that is dead or is not the daemon); the pid it sends SIGKILL after the
\* polls is the pid of the instance still running then; and it deletes the
\* PID file of no instance it did not signal.
C39_StopSignalsTheDaemon ==
    [][\A p \in Pids :
          /\ (SendsSigterm(p) \/ SendsSigkill(p)) => kind[p] = "daemon"
          /\ SendsSigkill(p) => pidfile = PidOf(p)
          /\ StopDeletesFileOf(p) => stop.pid = p]_vars

\* ------------------------------------------------- claims: the startup order
\* The step of the detached process that comes before each startup step.
StepBefore ==
    [pidwritten |-> "redirected", handler |-> "pidwritten", health |-> "handler",
     security |-> "health", main |-> "security"]

\* In this step daemon process p, its pid written to the PID file, ends on a
\* SIGTERM: by the signal's default action, or by the handler's sys.exit(0).
EndsOnSigterm(p) ==
    /\ kind[p] = "daemon" /\ pc[p] \notin {"detached", "redirected"}
    /\ kind'[p] = "free"
    /\ exitcode' = "SIGTERM" \/ (exitcode' = "0" /\ via[p] = "handler")

\* C40: the detached process takes its startup steps in the order streams
\* redirected, pid written, SIGTERM handler installed, health loop started,
\* security loop started, repair loop started; and a process that ends on a
\* SIGTERM delivered after it wrote the PID file has removed the PID file
\* before it ends.
C40_OrderAndSigtermCleanup ==
    [][\A p \in Pids :
          /\ (pc'[p] # pc[p] /\ pc'[p] \in DOMAIN StepBefore) => pc[p] = StepBefore[pc'[p]]
          /\ EndsOnSigterm(p) => pidfile' # PidOf(p)]_vars

\* The first half of C40 on its own.
C40_StartupOrder ==
    [][\A p \in Pids :
          (pc'[p] # pc[p] /\ pc'[p] \in DOMAIN StepBefore) => pc[p] = StepBefore[pc'[p]]]_vars

====
